---- MODULE Spec2Model ----
(***************************************************************************)
(* The shopping-list REST backend (Express routes, validation middleware,  *)
(* controllers, global error handler) over its four tables.                *)
(*                                                                         *)
(* JavaScript values are records [t, v]: t is the typeof tag ("NaN" for    *)
(* the number NaN), v the payload.  Strings are sequences of one-character *)
(* strings so that trim, length, Number() and parseInt() are computed.     *)
(***************************************************************************)
EXTENDS Integers, Sequences, FiniteSets, TLC

VARIABLES lists, items, categories, nextListId, nextItemId, nextCategoryId,
          globalPrisma, now, hook, req, resp, old, sends, inflight, page

vars == <<lists, items, categories, nextListId, nextItemId, nextCategoryId,
          globalPrisma, now, hook, req, resp, old, sends, inflight, page>>

\* ------------------------------------------------------------------ bounds
\* ids the autoincrement sequences may hand out before the model stops creating
MaxListId == 2
MaxItemId == 2
MaxCategoryId == 2
\* SpecMonthly: the last list id and the last item id
MaxMonthlyListId == 2
MaxMonthlyItemId == 1
\* SpecTotals: the last item id and the last category id
MaxTotalsItemId == 4
MaxTotalsCategoryId == 2
\* SpecBreakdown: the categories of an item array and the items of each
MaxBreakdownCategories == 3
MaxItemsPerCategory == 3
\* SpecHook: the last item id, the categories item events name, and the
\* quantity insert events may pile up in one list's local breakdown
MaxHookItemId == 2
MaxHookCategories == 2
MaxTrackedQuantity == 2
\* SpecStatsPage: the last list id
MaxStatsListId == 2
\* SpecItemPage: the fetches of loadItems in flight at once
MaxPageLoads == 1
\* SpecItemPage: the last item id
MaxPageItemId == 2
\* SpecListPage: the last list id
MaxPageListId == 2
\* SpecRace: the last item id
MaxRaceItemId == 3
\* SpecItems: the last item id
MaxFormItemId == 2
\* SpecWrites: the last id each table hands out
MaxRowId == 2

\* ------------------------------------------------------- program constants
MinListNameLen == 3
MaxListNameLen == 50
MaxItemNameLen == 50
MaxBrandLen == 50
MaxCommentsLen == 100

\* ------------------------------------------------------------- JS values
Undefined == [t |-> "undefined", v |-> 0]
Null == [t |-> "null", v |-> 0]
NaN == [t |-> "NaN", v |-> 0]
Num(n) == [t |-> "number", v |-> n]
Str(s) == [t |-> "string", v |-> s]
Bool(b) == [t |-> "boolean", v |-> IF b THEN 1 ELSE 0]

IsUndefined(x) == x.t = "undefined"

Rep(c, n) == [i \in 1..n |-> c]

DigitChars == <<"0", "1", "2", "3", "4", "5", "6", "7", "8", "9">>
IsDigit(c) == \E d \in 1..10 : DigitChars[d] = c
DigitVal(c) == (CHOOSE d \in 1..10 : DigitChars[d] = c) - 1
\* the decimal text of a small non-negative integer, as req.params carries it
ToStr(n) == <<DigitChars[n + 1]>>

\* String.prototype.trim
RECURSIVE trimStart(_)
trimStart(s) ==
    IF s = <<>> THEN s
    ELSE IF Head(s) = " " THEN trimStart(Tail(s)) ELSE s

RECURSIVE trimEnd(_)
trimEnd(s) ==
    IF s = <<>> THEN s
    ELSE IF s[Len(s)] = " " THEN trimEnd(SubSeq(s, 1, Len(s) - 1)) ELSE s

trim(s) == trimEnd(trimStart(s))

RECURSIVE DigitsValue(_)
DigitsValue(s) ==
    IF s = <<>> THEN 0
    ELSE DigitsValue(SubSeq(s, 1, Len(s) - 1)) * 10 + DigitVal(s[Len(s)])

RECURSIVE DigitPrefix(_)
DigitPrefix(s) ==
    IF s = <<>> \/ ~IsDigit(Head(s)) THEN <<>>
    ELSE <<Head(s)>> \o DigitPrefix(Tail(s))

\* Number(x): the whole trimmed text must be numeric; "" is 0
Number(x) ==
    CASE x.t = "undefined" -> NaN
      [] x.t = "null" -> Num(0)
      [] x.t = "boolean" -> Num(x.v)
      [] x.t = "string" ->
            LET s == trim(x.v) IN
            IF s = <<>> THEN Num(0)
            ELSE IF DigitPrefix(s) = s THEN Num(DigitsValue(s)) ELSE NaN
      [] OTHER -> x

\* parseInt(text, 10): the leading digits decide, whatever follows them
parseInt(s) ==
    LET p == DigitPrefix(trimStart(s)) IN
    IF p = <<>> THEN NaN ELSE Num(DigitsValue(p))

isNaN(x) == Number(x).t = "NaN"

\* ToBoolean
Truthy(x) ==
    CASE x.t = "undefined" -> FALSE
      [] x.t = "null" -> FALSE
      [] x.t = "NaN" -> FALSE
      [] x.t = "number" -> x.v # 0
      [] x.t = "boolean" -> x.v = 1
      [] x.t = "string" -> x.v # <<>>

\* x?.trim() || "" : the text a validator looks at
OptTrim(x) == IF x.t = "string" THEN trim(x.v) ELSE <<>>
\* x?.trim() throws a TypeError when x is neither nullish nor a string
TrimThrows(x) == x.t \notin {"undefined", "null", "string"}

\* --------------------------------------------------------------- validators
\* each returns the set of field names its `errors` object carries

validateListCreation(data) ==
    LET trimmedName == OptTrim(data.name) IN
    IF trimmedName # <<>>
       /\ (Len(trimmedName) < MinListNameLen \/ Len(trimmedName) > MaxListNameLen)
    THEN {"name"} ELSE {}

validateListUpdate(data) ==
    LET trimmedName == OptTrim(data.name) IN
    IF trimmedName = <<>> THEN {"name"}
    ELSE IF Len(trimmedName) < MinListNameLen THEN {"name"}
    ELSE IF Len(trimmedName) > MaxListNameLen THEN {"name"}
    ELSE {}

\* mutant: the comparison with the text "0" is missing
QuantityRejected_NoZeroText(q) ==
    \/ (q.t = "number" /\ q.v = 0)
    \/ (q.t = "string" /\ q.v = <<>>)
    \/ q.t = "null"
    \/ isNaN(q)

QuantityRejected(q) ==
    \/ (q.t = "number" /\ q.v = 0)
    \/ (q.t = "string" /\ q.v = <<"0">>)
    \/ (q.t = "string" /\ q.v = <<>>)
    \/ q.t = "null"
    \/ isNaN(q)

validateItemAddition(item) ==
    LET name == OptTrim(item.name)
        brand == OptTrim(item.brand)
        comments == OptTrim(item.comments)
    IN  (IF name = <<>> \/ Len(name) > MaxItemNameLen THEN {"name"} ELSE {})
        \cup (IF QuantityRejected(item.quantity) THEN {"quantity"} ELSE {})
        \cup (IF brand # <<>> /\ Len(brand) > MaxBrandLen THEN {"brand"} ELSE {})
        \cup (IF ~Truthy(item.unitId) \/ Number(item.unitId).v = 0
              THEN {"unitId"} ELSE {})
        \cup (IF comments # <<>> /\ Len(comments) > MaxCommentsLen
              THEN {"comments"} ELSE {})

validateItemUpdate(item) ==
    LET name == OptTrim(item.name)
        brand == OptTrim(item.brand)
        comments == OptTrim(item.comments)
    IN  (IF name = <<>> \/ Len(name) > MaxItemNameLen THEN {"name"} ELSE {})
        \cup (IF QuantityRejected(item.quantity) THEN {"quantity"} ELSE {})
        \cup (IF brand # <<>> /\ Len(brand) > MaxBrandLen THEN {"brand"} ELSE {})
        \cup (IF ~Truthy(item.unitId) \/ Number(item.unitId).v = 0
              THEN {"unitId"} ELSE {})
        \cup (IF comments # <<>> /\ Len(comments) > MaxCommentsLen
              THEN {"comments"} ELSE {})

\* the validator itself throws (a TypeError) when a text field is not a string
ListValidatorThrows(data) == TrimThrows(data.name)
ItemValidatorThrows(item) ==
    TrimThrows(item.name) \/ TrimThrows(item.brand) \/ TrimThrows(item.comments)

\* ------------------------------------------------------ responses and errors
ErrorBody(m) == [kind |-> "error", message |-> m, errors |-> {}, value |-> <<>>]
ErrorsBody(e) == [kind |-> "errors", message |-> "", errors |-> e, value |-> <<>>]
JsonBody(x) == [kind |-> "json", message |-> "", errors |-> {}, value |-> x]
NoBody == [kind |-> "none", message |-> "", errors |-> {}, value |-> <<>>]
Response(status, body) == [status |-> status, body |-> body]

\* Object.assign(new Error(message), { statusCode })
HttpError(statusCode, message) == [statusCode |-> statusCode, message |-> message]
\* an error thrown by the runtime or the ORM carries no statusCode
PlainError(message) == [statusCode |-> 0, message |-> message]

errorHandler(err) ==
    Response(IF err.statusCode # 0 THEN err.statusCode ELSE 500,
             ErrorBody(IF err.message # "" THEN err.message
                       ELSE "Internal server error"))

\* mutant: res.json({ errors }) without res.status(400)
validateRequest_NoStatus(errors) ==
    IF Cardinality(errors) > 0
    THEN [next |-> FALSE, resp |-> Response(200, ErrorsBody(errors))]
    ELSE [next |-> TRUE, resp |-> Response(0, NoBody)]

\* mutant: res.status(400).json({ errors }) without `return`, next() follows
validateRequest_NoReturn(errors) ==
    IF Cardinality(errors) > 0
    THEN [next |-> TRUE, resp |-> Response(400, ErrorsBody(errors))]
    ELSE [next |-> TRUE, resp |-> Response(0, NoBody)]

\* validateRequest: answers 400 itself when the validator reports a field
validateRequest(errors) ==
    IF Cardinality(errors) > 0
    THEN [next |-> FALSE, resp |-> Response(400, ErrorsBody(errors))]
    ELSE [next |-> TRUE, resp |-> Response(0, NoBody)]

\* ------------------------------------------------------------------ dates
\* A Date is the number of its UTC day, counted from 1970-01-01: every Date
\* the service builds is the first instant of a day.

\* ECMAScript DayFromYear, InLeapYear and the day a month starts on
DayFromYear(y) ==
    365 * (y - 1970) + ((y - 1969) \div 4) - ((y - 1901) \div 100)
        + ((y - 1601) \div 400)

InLeapYear(y) == DayFromYear(y + 1) - DayFromYear(y) = 366

MonthStart == <<0, 31, 59, 90, 120, 151, 181, 212, 243, 273, 304, 334>>
DayWithinYear(mn, leap) == MonthStart[mn + 1] + (IF leap /\ mn >= 2 THEN 1 ELSE 0)

\* MakeDay: a month outside 0..11 carries into the year
MakeDay(year, month, date) ==
    LET ym == year + (month \div 12)
        mn == month % 12
    IN  DayFromYear(ym) + DayWithinYear(mn, InLeapYear(ym)) + date - 1

\* Date.UTC(year, month, date): a year of 0..99 means 1900 + year
DateUTC(year, month, date) ==
    LET yr == IF year >= 0 /\ year <= 99 THEN 1900 + year ELSE year
    IN  MakeDay(yr, month, date)

\* mutant: /^\d{4}-\d{2}/, the pattern without its end anchor
MatchesMonthPattern_Unanchored(s) ==
    /\ Len(s) >= 7
    /\ \A k \in {1, 2, 3, 4, 6, 7} : IsDigit(s[k])
    /\ s[5] = "-"

\* /^\d{4}-\d{2}$/.test(s)
MatchesMonthPattern(s) ==
    /\ Len(s) = 7
    /\ \A k \in {1, 2, 3, 4, 6, 7} : IsDigit(s[k])
    /\ s[5] = "-"

\* parseMonth: the interval, or the error it throws
parseMonth(monthStr) ==
    IF ~Truthy(monthStr) \/ monthStr.t # "string" \/ ~MatchesMonthPattern(monthStr.v)
    THEN [ok |-> FALSE, start |-> 0, end |-> 0,
          error |-> HttpError(400, "Month must be in format YYYY-MM")]
    ELSE LET year == Number(Str(SubSeq(monthStr.v, 1, 4))).v
             monthNumber == Number(Str(SubSeq(monthStr.v, 6, 7))).v
         IN  [ok |-> TRUE,
              start |-> DateUTC(year, monthNumber - 1, 1),
              end |-> DateUTC(year, monthNumber, 1),
              error |-> HttpError(0, "")]

\* ------------------------------------------------------------------ storage
\* The tables.  A list row is [id, name, createdAt], createdAt being the day
\* (counted from 1970-01-01 UTC) the row was inserted on; a category row is
\* [id, name]; an item row is [id, name, quantity, brand, unitId, listId,
\* categoryId, comments, bought], brand and comments being Null or Str(text).
\* Item.addedAt is left out: no handler modelled here reads it.

\* the seeded rows (seed.js upserts 17 categories and 9 units; one category
\* and one unit stand for them here)
SeedCategories == {[id |-> 1, name |-> <<"c", "1">>]}
SeedUnitIds == {1}

ListIds == {l.id : l \in lists}
CategoryIds == {c.id : c \in categories}
ItemIds == {i.id : i \in items}
ListById(id) == CHOOSE l \in lists : l.id = id
ItemById(id) == CHOOSE i \in items : i.id = id

\* mutant: the relations are not enforced
ForeignKeysHold_Unenforced(listId, categoryId, unitId) == TRUE

\* the schema's relations: an item row is accepted only while its three
\* foreign keys name stored rows
ForeignKeysHold(listId, categoryId, unitId) ==
    /\ listId \in ListIds
    /\ categoryId \in CategoryIds
    /\ unitId \in SeedUnitIds

\* Category.name is unique
CategoryNameTaken(name) == \E c \in categories : c.name = name

\* what the schema may do with the items of a deleted category
ReferentialActions == {"Restrict", "Cascade"}

\* mutant: the filter names the item's own id
deleteManyItems_ById(listId) == {i \in items : i.id # listId}

\* deleteMany({ where: { listId } })
deleteManyItems(listId) == {i \in items : i.listId # listId}

\* the ORM rejects a value that is not of the column's type before any query
IsInt(x) == x.t = "number"
IsText(x) == x.t = "string"
IsOptText(x) == x.t \in {"string", "null"}
IsBool(x) == x.t = "boolean"

\* ---------------------------------------------------------- request plumbing
EmptyBody ==
    [name |-> Undefined, quantity |-> Undefined, brand |-> Undefined,
     unitId |-> Undefined, comments |-> Undefined, bought |-> Undefined]

NoWrite ==
    UNCHANGED <<lists, items, categories, nextListId, nextItemId, nextCategoryId>>

Reply(r) == resp' = r

\* throw: asyncHandler's catch(next) hands the error to errorHandler
Throw(err) == Reply(errorHandler(err)) /\ NoWrite

\* every request records itself and the tables it found
Receive(op, id, id2, body) ==
    /\ req' = [op |-> op, id |-> id, id2 |-> id2, body |-> body,
               month |-> Undefined]
    /\ old' = [lists |-> lists, items |-> items, categories |-> categories]

\* a request that carries only the query parameter `month`
ReceiveQuery(op, month) ==
    /\ req' = [op |-> op, id |-> <<>>, id2 |-> <<>>, body |-> EmptyBody,
               month |-> month]
    /\ old' = [lists |-> lists, items |-> items, categories |-> categories]

\* asyncHandler(fn), entered with headersSent responses already written: fn
\* writes its response and returns, or throws before writing and catch(next)
\* takes the error to errorHandler, which writes unless res.headersSent.
\* `sends` counts the responses written for the request.
asyncHandler(controller, headersSent) ==
    /\ controller
    /\ sends' = IF headersSent > 0 /\ resp'.body.kind = "error"
                THEN headersSent ELSE headersSent + 1

\* router.<method>(path, validateRequest(validator, getData), controller); a
\* validator that throws is caught by the router and taken to errorHandler
Validated(throws, errors, controller) ==
    IF throws THEN Throw(PlainError("TypeError")) /\ sends' = 1
    ELSE LET v == validateRequest(errors)
             written == IF v.resp.status # 0 THEN 1 ELSE 0
         IN  IF v.next THEN asyncHandler(controller, written)
             ELSE Reply(v.resp) /\ NoWrite /\ sends' = written

\* ------------------------------------------------------------ list handlers
\* mutant: the handler does not ask for a name
createList_NoNameCheck(body) ==
    IF ~IsText(body.name) THEN Throw(PlainError("PrismaClientValidationError"))
    ELSE LET newList == [id |-> nextListId, name |-> body.name.v,
                         createdAt |-> now]
         IN
         /\ lists' = lists \cup {newList}
         /\ nextListId' = nextListId + 1
         /\ Reply(Response(201, JsonBody(newList)))
         /\ UNCHANGED <<items, categories, nextItemId, nextCategoryId>>

createList(body) ==
    IF ~Truthy(body.name) THEN Throw(HttpError(400, "Name is required"))
    ELSE IF ~IsText(body.name) THEN Throw(PlainError("PrismaClientValidationError"))
    ELSE LET newList == [id |-> nextListId, name |-> body.name.v,
                         createdAt |-> now]
         IN
         /\ lists' = lists \cup {newList}
         /\ nextListId' = nextListId + 1
         /\ Reply(Response(201, JsonBody(newList)))
         /\ UNCHANGED <<items, categories, nextItemId, nextCategoryId>>

updateListName(p, body) ==
    LET id == parseInt(p) IN
    IF id.t = "NaN" THEN Throw(HttpError(400, "Invalid list ID"))
    ELSE IF ~Truthy(body.name) THEN Throw(HttpError(400, "Name is required"))
    ELSE IF ~IsText(body.name) THEN Throw(PlainError("PrismaClientValidationError"))
    ELSE IF id.v \notin ListIds THEN Throw(PlainError("P2025 record not found"))
    ELSE /\ lists' = {IF l.id = id.v THEN [l EXCEPT !.name = body.name.v] ELSE l
                      : l \in lists}
         /\ Reply(Response(200, JsonBody([ListById(id.v) EXCEPT !.name = body.name.v])))
         /\ UNCHANGED <<items, categories, nextListId, nextItemId, nextCategoryId>>

\* the two awaits of deleteList, with no other request between them;
\* onDelete is what the schema does should an item still refer to the list
deleteList(p, onDelete) ==
    LET id == parseInt(p) IN
    IF id.t = "NaN" THEN Throw(HttpError(400, "Invalid list ID"))
    ELSE
      LET remaining == deleteManyItems(id.v) IN
      IF id.v \notin ListIds
      THEN \* deleteMany has run; list.delete finds no row and throws
           /\ items' = remaining
           /\ Reply(errorHandler(PlainError("P2025 record not found")))
           /\ UNCHANGED <<lists, categories, nextListId, nextItemId, nextCategoryId>>
      ELSE IF onDelete = "Restrict" /\ \E i \in remaining : i.listId = id.v
      THEN /\ items' = remaining
           /\ Reply(errorHandler(PlainError("P2003 foreign key constraint failed")))
           /\ UNCHANGED <<lists, categories, nextListId, nextItemId, nextCategoryId>>
      ELSE /\ items' = {i \in remaining : i.listId # id.v}
           /\ lists' = {l \in lists : l.id # id.v}
           /\ Reply(Response(204, NoBody))
           /\ UNCHANGED <<categories, nextListId, nextItemId, nextCategoryId>>

\* deleteList taken apart at its awaits, for requests that run beside it.
\* `inflight` is the deleteList request that has come back from
\* item.deleteMany and not yet called list.delete, with the tables it found
\* when it arrived.
NoneInFlight ==
    [op |-> "none", p |-> <<>>,
     old |-> [lists |-> {}, items |-> {}, categories |-> {}]]

\* deleteList from list.delete on: id has been parsed, deleteMany is committed
deleteListAfterDeleteMany(id, onDelete) ==
    IF id \notin ListIds
    THEN Throw(PlainError("P2025 record not found"))
    ELSE IF onDelete = "Restrict" /\ \E i \in items : i.listId = id
    THEN Throw(PlainError("P2003 foreign key constraint failed"))
    ELSE /\ items' = {i \in items : i.listId # id}
         /\ lists' = {l \in lists : l.id # id}
         /\ Reply(Response(204, NoBody))
         /\ UNCHANGED <<categories, nextListId, nextItemId, nextCategoryId>>

\* ------------------------------------------------------------ item handlers
\* x?.trim() || null
TrimOrNull(x) ==
    IF x.t = "string" /\ trim(x.v) # <<>> THEN Str(trim(x.v)) ELSE Null

addItemToCategory(listId, categoryId, body) ==
    IF ~Truthy(body.name) \/ ~Truthy(body.quantity) \/ ~Truthy(body.unitId)
    THEN Throw(HttpError(400, "Missing required fields: name, quantity or unitId"))
    ELSE IF ~IsText(body.name) \/ TrimThrows(body.brand) \/ TrimThrows(body.comments)
    THEN Throw(PlainError("TypeError"))
    ELSE
      LET quantity == Number(body.quantity)
          unit == Number(body.unitId)
          list == Number(Str(listId))
          category == Number(Str(categoryId))
      IN
      IF ~IsInt(quantity) \/ ~IsInt(unit) \/ ~IsInt(list) \/ ~IsInt(category)
      THEN Throw(PlainError("PrismaClientValidationError"))
      ELSE IF ~ForeignKeysHold(list.v, category.v, unit.v)
      THEN Throw(PlainError("P2003 foreign key constraint failed"))
      ELSE
        LET newItem == [id |-> nextItemId,
                        name |-> trim(body.name.v),
                        quantity |-> quantity.v,
                        brand |-> TrimOrNull(body.brand),
                        unitId |-> unit.v,
                        listId |-> list.v,
                        categoryId |-> category.v,
                        comments |-> TrimOrNull(body.comments),
                        bought |-> FALSE]
        IN /\ items' = items \cup {newItem}
           /\ nextItemId' = nextItemId + 1
           /\ Reply(Response(201, JsonBody(newItem)))
           /\ UNCHANGED <<lists, categories, nextListId, nextCategoryId>>

\* the database's ordering of texts, character by character
CharOrder == <<" ", "0", "1", "2", "3", "4", "5", "6", "7", "8", "9",
               "A", "B", "C", "U", "a", "b", "c", "k", "n", "o", "w", "x">>
CharCode(c) == CHOOSE k \in 1..Len(CharOrder) : CharOrder[k] = c

RECURSIVE TextLeq(_, _)
TextLeq(s, t) ==
    IF s = <<>> THEN TRUE
    ELSE IF t = <<>> THEN FALSE
    ELSE IF Head(s) = Head(t) THEN TextLeq(Tail(s), Tail(t))
    ELSE CharCode(Head(s)) < CharCode(Head(t))

\* the orders findMany({ orderBy: { name: 'asc' } }) may return rows in:
\* name ascending, rows of equal name in any order
OrderedByName(rows) ==
    {q \in [1..Cardinality(rows) -> rows] :
        /\ \A i, j \in DOMAIN q : i # j => q[i] # q[j]
        /\ \A i, j \in DOMAIN q : i < j => TextLeq(q[i].name, q[j].name)}

getItemsByListAndCategory(listId, categoryId) ==
    LET list == Number(Str(listId))
        category == Number(Str(categoryId))
    IN
    IF ~IsInt(list) \/ ~IsInt(category)
    THEN Throw(PlainError("PrismaClientValidationError"))
    ELSE /\ \E q \in OrderedByName({i \in items : i.listId = list.v
                                                 /\ i.categoryId = category.v}) :
               Reply(Response(200, JsonBody(q)))
         /\ NoWrite

\* the fields of the body that updateItem copies into dataToUpdate
ItemFields == {"name", "quantity", "brand", "unitId", "comments", "bought"}
dataToUpdate(body) == {f \in ItemFields : ~IsUndefined(body[f])}

\* prisma.item.update({ where: { id }, data }): only the fields in data change
ApplyUpdate(row, body) ==
    [row EXCEPT
        !.name = IF IsUndefined(body.name) THEN @ ELSE body.name.v,
        !.quantity = IF IsUndefined(body.quantity) THEN @ ELSE body.quantity.v,
        !.brand = IF IsUndefined(body.brand) THEN @ ELSE body.brand,
        !.unitId = IF IsUndefined(body.unitId) THEN @ ELSE body.unitId.v,
        !.comments = IF IsUndefined(body.comments) THEN @ ELSE body.comments,
        !.bought = IF IsUndefined(body.bought) THEN @ ELSE body.bought.v = 1]

UpdateDataWellTyped(body) ==
    /\ IsUndefined(body.name) \/ IsText(body.name)
    /\ IsUndefined(body.quantity) \/ IsInt(body.quantity)
    /\ IsUndefined(body.brand) \/ IsOptText(body.brand)
    /\ IsUndefined(body.unitId) \/ IsInt(body.unitId)
    /\ IsUndefined(body.comments) \/ IsOptText(body.comments)
    /\ IsUndefined(body.bought) \/ IsBool(body.bought)

updateItem(p, body) ==
    LET id == parseInt(p) IN
    IF id.t = "NaN" THEN Throw(HttpError(400, "Invalid item ID"))
    ELSE IF dataToUpdate(body) = {}
    THEN Throw(HttpError(400, "No valid fields provided to update"))
    ELSE IF ~UpdateDataWellTyped(body)
    THEN Throw(PlainError("PrismaClientValidationError"))
    ELSE IF id.v \notin ItemIds THEN Throw(PlainError("P2025 record not found"))
    ELSE
      LET row == ApplyUpdate(ItemById(id.v), body) IN
      IF ~ForeignKeysHold(row.listId, row.categoryId, row.unitId)
      THEN Throw(PlainError("P2003 foreign key constraint failed"))
      ELSE /\ items' = (items \ {ItemById(id.v)}) \cup {row}
           /\ Reply(Response(200, JsonBody(row)))
           /\ UNCHANGED <<lists, categories, nextListId, nextItemId, nextCategoryId>>

\* mutant: the type of `bought` is left to the database client
updateBoughtStatus_NoTypeCheck(p, body) ==
    LET id == parseInt(p) IN
    IF id.t = "NaN" THEN Throw(HttpError(400, "Invalid item ID"))
    ELSE IF ~IsBool(body.bought) THEN Throw(PlainError("PrismaClientValidationError"))
    ELSE IF id.v \notin ItemIds THEN Throw(PlainError("P2025 record not found"))
    ELSE
      LET row == [ItemById(id.v) EXCEPT !.bought = body.bought.v = 1] IN
      /\ items' = (items \ {ItemById(id.v)}) \cup {row}
      /\ Reply(Response(200, JsonBody(row)))
      /\ UNCHANGED <<lists, categories, nextListId, nextItemId, nextCategoryId>>

updateBoughtStatus(p, body) ==
    LET id == parseInt(p) IN
    IF id.t = "NaN" THEN Throw(HttpError(400, "Invalid item ID"))
    ELSE IF ~IsBool(body.bought) THEN Throw(HttpError(400, "'bought' must be boolean"))
    ELSE IF id.v \notin ItemIds THEN Throw(PlainError("P2025 record not found"))
    ELSE
      LET row == [ItemById(id.v) EXCEPT !.bought = body.bought.v = 1] IN
      /\ items' = (items \ {ItemById(id.v)}) \cup {row}
      /\ Reply(Response(200, JsonBody(row)))
      /\ UNCHANGED <<lists, categories, nextListId, nextItemId, nextCategoryId>>

deleteItem(p) ==
    LET id == parseInt(p) IN
    IF id.t = "NaN" THEN Throw(HttpError(400, "Invalid item ID"))
    ELSE IF id.v \notin ItemIds THEN Throw(PlainError("P2025 record not found"))
    ELSE /\ items' = {i \in items : i.id # id.v}
         /\ Reply(Response(204, NoBody))
         /\ UNCHANGED <<lists, categories, nextListId, nextItemId, nextCategoryId>>

\* -------------------------------------------------------- category handlers
createCategory(body) ==
    IF ~Truthy(body.name) THEN Throw(HttpError(400, "Name is required"))
    ELSE IF ~IsText(body.name) THEN Throw(PlainError("PrismaClientValidationError"))
    ELSE IF CategoryNameTaken(body.name.v)
    THEN Throw(PlainError("P2002 unique constraint failed"))
    ELSE /\ categories' = categories \cup {[id |-> nextCategoryId, name |-> body.name.v]}
         /\ nextCategoryId' = nextCategoryId + 1
         /\ Reply(Response(201, JsonBody([id |-> nextCategoryId, name |-> body.name.v])))
         /\ UNCHANGED <<lists, items, nextListId, nextItemId>>

deleteCategory(p, onDelete) ==
    LET id == parseInt(p) IN
    IF id.t = "NaN" THEN Throw(HttpError(400, "Invalid category ID"))
    ELSE IF id.v \notin CategoryIds THEN Throw(PlainError("P2025 record not found"))
    ELSE IF onDelete = "Restrict" /\ \E i \in items : i.categoryId = id.v
    THEN Throw(PlainError("P2003 foreign key constraint failed"))
    ELSE /\ categories' = {c \in categories : c.id # id.v}
         /\ items' = {i \in items : i.categoryId # id.v}
         /\ Reply(Response(204, NoBody))
         /\ UNCHANGED <<lists, nextListId, nextItemId, nextCategoryId>>

\* ------------------------------------------------------- statistics service
Unknown == <<"U", "n", "k", "n", "o", "w", "n">>

\* getCategoryMap(items).get(id) || 'Unknown'
CategoryName(id) ==
    IF \E c \in categories : c.id = id /\ c.name # <<>>
    THEN (CHOOSE c \in categories : c.id = id).name
    ELSE Unknown

\* mutant: toFixed(0), a whole percent
Percent_WholePercent(count, total) ==
    IF total > 0 THEN ((count * 200 + total) \div (2 * total)) * 100 ELSE 0

\* Number(((count / total) * 100).toFixed(2)), in hundredths of a percent
Percent(count, total) ==
    IF total > 0 THEN (count * 20000 + total) \div (2 * total) ELSE 0

\* mutant: without .sort((a, b) => b.quantity - a.quantity)
computeCategoriesBreakdown_Unsorted(rows) ==
    LET totalQuantity == Cardinality(rows)
        count(c) == Cardinality({i \in rows : i.categoryId = c})
        entries == {[categoryId |-> c,
                     categoryName |-> CategoryName(c),
                     quantity |-> count(c),
                     percent |-> Percent(count(c), totalQuantity)]
                    : c \in {i.categoryId : i \in rows}}
    IN  CHOOSE q \in [1..Cardinality(entries) -> entries] :
            \A i, j \in DOMAIN q : i < j => q[i].categoryId < q[j].categoryId

\* Object.entries(counts) lists integer keys ascending and the sort is stable:
\* rows by quantity descending, equal quantities by categoryId ascending
computeCategoriesBreakdown(rows) ==
    LET totalQuantity == Cardinality(rows)
        count(c) == Cardinality({i \in rows : i.categoryId = c})
        entries == {[categoryId |-> c,
                     categoryName |-> CategoryName(c),
                     quantity |-> count(c),
                     percent |-> Percent(count(c), totalQuantity)]
                    : c \in {i.categoryId : i \in rows}}
        Before(a, b) == \/ a.quantity > b.quantity
                        \/ (a.quantity = b.quantity /\ a.categoryId < b.categoryId)
    IN  CHOOSE q \in [1..Cardinality(entries) -> entries] :
            \A i, j \in DOMAIN q : i < j => Before(q[i], q[j])

\* { ...list, totalQuantity: items.length, categories }
StatsOfList(list, rows) ==
    [id |-> list.id,
     name |-> list.name,
     createdAt |-> list.createdAt,
     totalQuantity |-> Cardinality(rows),
     categories |-> computeCategoriesBreakdown(rows)]

\* controllers/statistic.js imports these two names only
StatisticControllerImports == {"asyncHandler", "statsService"}

\* the bare identifier `prisma` resolves in that module only through the
\* property client.js puts on globalThis outside production
PrismaResolves == "prisma" \in StatisticControllerImports \/ globalPrisma

getStatsByList(p) ==
    LET listId == Number(Str(p)) IN
    IF listId.t = "NaN" THEN Throw(HttpError(400, "listId must be a number"))
    ELSE IF ~PrismaResolves THEN Throw(PlainError("ReferenceError: prisma is not defined"))
    ELSE IF listId.v \notin ListIds THEN Throw(HttpError(404, "List not found"))
    ELSE /\ Reply(Response(200, JsonBody(
                StatsOfList(ListById(listId.v), {i \in items : i.listId = listId.v}))))
         /\ NoWrite

\* mutant: createdAt: { gte: start, lte: end }
getListsInRange_Closed(start, end) ==
    LET rows == {l \in lists : l.createdAt >= start /\ l.createdAt <= end} IN
    {q \in [1..Cardinality(rows) -> rows] :
        /\ \A i, j \in DOMAIN q : i # j => q[i] # q[j]
        /\ \A i, j \in DOMAIN q : i < j => q[i].createdAt <= q[j].createdAt}

\* getListsInRange: the orders findMany({ orderBy: { createdAt: 'asc' } }) may
\* return the lists of [start, end) in, lists of equal createdAt in any order
getListsInRange(start, end) ==
    LET rows == {l \in lists : l.createdAt >= start /\ l.createdAt < end} IN
    {q \in [1..Cardinality(rows) -> rows] :
        /\ \A i, j \in DOMAIN q : i # j => q[i] # q[j]
        /\ \A i, j \in DOMAIN q : i < j => q[i].createdAt <= q[j].createdAt}

getItemsForLists(listIds) == {i \in items : i.listId \in listIds}

\* groupItemsByList(rows)[listId] || []
groupItemsByList(rows, listId) == {i \in rows : i.listId = listId}

getMonthlyStats(month) ==
    LET range == parseMonth(month) IN
    IF ~range.ok THEN Throw(range.error)
    ELSE /\ \E ls \in getListsInRange(range.start, range.end) :
              LET fetched == getItemsForLists({ls[k].id : k \in DOMAIN ls})
                  result == [k \in DOMAIN ls |->
                                StatsOfList(ls[k], groupItemsByList(fetched, ls[k].id))]
              IN  IF Len(ls) = 0
                  THEN Reply(Response(200, JsonBody([month |-> month.v,
                                                     lists |-> <<>>])))
                  ELSE Reply(Response(200, JsonBody([month |-> month.v,
                                                     lists |-> result])))
         /\ NoWrite

\* --------------------------------------------------------- statistics hook
\* frontend/src/hooks/useStatistics.js.  hook.lists are the ids of the `lists`
\* state, hook.dataByList the `dataByList` state (a function from list ids),
\* hook.fetching the lists a reloadList call is waiting for.  hook.event,
\* hook.before and hook.reloadCalled record the last item event, the
\* dataByList it found and whether it called reloadList.

\* c.quantity / totalQuantity * 100, kept as the fraction n / d
Ratio(n, d) == [n |-> n, d |-> d]

RECURSIVE SumQuantity(_)
SumQuantity(cs) ==
    IF cs = <<>> THEN 0 ELSE Head(cs).quantity + SumQuantity(Tail(cs))

\* mutant: the total is the one the list data came with
recalcList_KeepsTotal(listData) ==
    LET totalQuantity == listData.totalQuantity IN
    [listData EXCEPT
        !.categories = [k \in DOMAIN listData.categories |->
            [listData.categories[k] EXCEPT
                !.percent = IF totalQuantity # 0
                            THEN Ratio(listData.categories[k].quantity * 100,
                                       totalQuantity)
                            ELSE Ratio(0, 1)]],
        !.totalQuantity = totalQuantity]

recalcList(listData) ==
    LET totalQuantity == SumQuantity(listData.categories) IN
    [listData EXCEPT
        !.categories = [k \in DOMAIN listData.categories |->
            [listData.categories[k] EXCEPT
                !.percent = IF totalQuantity # 0
                            THEN Ratio(listData.categories[k].quantity * 100,
                                       totalQuantity)
                            ELSE Ratio(0, 1)]],
        !.totalQuantity = totalQuantity]

NoEvent == [type |-> "none", listId |-> 0, categoryId |-> 0]

\* StatisticsPage mounts the hook with the current month; the clock starts on
\* 2024-01-31
InitialMonth == Str(<<"2", "0", "2", "4", "-", "0", "1">>)

\* useState(initialMonth), useState([]), useState({}): nothing loaded yet.
\* hook.month is the `month` state, hook.loading the months a loadMonthData
\* call is waiting for, hook.shown the month of the load that settled last.
HookMounted ==
    [lists |-> {}, dataByList |-> <<>>, fetching |-> {}, event |-> NoEvent,
     before |-> <<>>, reloadCalled |-> FALSE,
     month |-> InitialMonth, loading |-> {}, shown |-> Undefined]

\* updatedCategories.findIndex(c => c.categoryId === categoryId), 0 for -1
FindIndex(cs, categoryId) ==
    IF \E k \in DOMAIN cs : cs[k].categoryId = categoryId
    THEN CHOOSE k \in DOMAIN cs :
            /\ cs[k].categoryId = categoryId
            /\ \A j \in 1..(k - 1) : cs[j].categoryId # categoryId
    ELSE 0

\* updatedCategories.splice(idx, 1)
Splice(cs, idx) == SubSeq(cs, 1, idx - 1) \o SubSeq(cs, idx + 1, Len(cs))

\* mutant: a delete event lowers the quantity and never takes the category out
updateItemInData_NoSplice(listId, item, type) ==
    LET recorded == [hook EXCEPT !.event = [type |-> type, listId |-> listId,
                                            categoryId |-> item.categoryId],
                                 !.before = hook.dataByList,
                                 !.reloadCalled = FALSE]
    IN
    IF listId \notin DOMAIN hook.dataByList THEN recorded
    ELSE
      LET listData == hook.dataByList[listId]
          cs == listData.categories
          idx == FindIndex(cs, item.categoryId)
          shouldReload == \/ (type = "insert" /\ idx = 0)
                          \/ (type = "update" /\ idx = 0)
          updatedCategories ==
            IF type = "insert" /\ idx > 0
            THEN [cs EXCEPT ![idx].quantity = @ + 1]
            ELSE IF type = "delete" /\ idx > 0
            THEN [cs EXCEPT ![idx].quantity = @ - 1]
            ELSE cs
      IN
      IF shouldReload
      THEN [recorded EXCEPT !.fetching = @ \cup {listId}, !.reloadCalled = TRUE]
      ELSE [recorded EXCEPT
               !.dataByList[listId] =
                   recalcList([listData EXCEPT !.categories = updatedCategories])]

\* updateItemInData(listId, item, type): the hook state after the updater ran
updateItemInData(listId, item, type) ==
    LET recorded == [hook EXCEPT !.event = [type |-> type, listId |-> listId,
                                            categoryId |-> item.categoryId],
                                 !.before = hook.dataByList,
                                 !.reloadCalled = FALSE]
    IN
    IF listId \notin DOMAIN hook.dataByList THEN recorded
    ELSE
      LET listData == hook.dataByList[listId]
          cs == listData.categories
          idx == FindIndex(cs, item.categoryId)
          shouldReload == \/ (type = "insert" /\ idx = 0)
                          \/ (type = "update" /\ idx = 0)
          updatedCategories ==
            IF type = "insert" /\ idx > 0
            THEN [cs EXCEPT ![idx].quantity = @ + 1]
            ELSE IF type = "delete" /\ idx > 0
            THEN IF cs[idx].quantity - 1 > 0
                 THEN [cs EXCEPT ![idx].quantity = @ - 1]
                 ELSE Splice(cs, idx)
            ELSE cs
      IN
      IF shouldReload
      THEN [recorded EXCEPT !.fetching = @ \cup {listId}, !.reloadCalled = TRUE]
      ELSE [recorded EXCEPT
               !.dataByList[listId] =
                   recalcList([listData EXCEPT !.categories = updatedCategories])]

\* a fetch settles: the record of the last item event is over
Settled ==
    [hook EXCEPT !.event = NoEvent, !.before = <<>>, !.reloadCalled = FALSE]

\* what fetchListStats(listId) resolves with, or that it rejects
fetchListStats(listId) ==
    IF PrismaResolves /\ listId \in ListIds
    THEN [ok |-> TRUE,
          value |-> StatsOfList(ListById(listId), {i \in items : i.listId = listId})]
    ELSE [ok |-> FALSE, value |-> <<>>]

\* reloadList(listId), at the moment its fetch settles
reloadList(listId) ==
    LET updatedList == fetchListStats(listId) IN
    IF updatedList.ok
    THEN [Settled EXCEPT !.fetching = @ \ {listId},
                         !.dataByList = (listId :> recalcList(updatedList.value)) @@ @]
    ELSE [Settled EXCEPT !.fetching = @ \ {listId}]

\* loadMonthData(m), at the moment its fetch settles
loadMonthData(m) ==
    LET range == parseMonth(m) IN
    IF ~range.ok
    THEN {[Settled EXCEPT !.lists = {}, !.dataByList = <<>>, !.shown = m]}
    ELSE {[Settled EXCEPT
              !.shown = m,
              !.lists = {ls[k].id : k \in DOMAIN ls},
              !.dataByList =
                  [id \in {ls[k].id : k \in DOMAIN ls} |->
                      recalcList(StatsOfList(ListById(id),
                                             {i \in items : i.listId = id}))]]
          : ls \in getListsInRange(range.start, range.end)}

\* the list subscription's callbacks; the pushed row has id, name, createdAt
ListDataOfRow(row) ==
    [id |-> row.id, name |-> row.name, createdAt |-> row.createdAt,
     totalQuantity |-> 0, categories |-> <<>>]

\* onInsert(newList)
onListInsert(newList) ==
    [Settled EXCEPT
        !.lists = @ \cup {newList.id},
        !.dataByList = (newList.id :> recalcList(ListDataOfRow(newList))) @@ @]

\* onUpdate(updatedList): { ...prevData, ...updatedList }
onListUpdate(updatedList) ==
    LET merged == IF updatedList.id \in DOMAIN hook.dataByList
                  THEN [hook.dataByList[updatedList.id] EXCEPT
                           !.name = updatedList.name,
                           !.createdAt = updatedList.createdAt]
                  ELSE ListDataOfRow(updatedList)
    IN  [Settled EXCEPT
            !.dataByList = (updatedList.id :> recalcList(merged)) @@ @]

\* onDelete(deletedList)
onListDelete(deletedList) ==
    [Settled EXCEPT
        !.lists = @ \ {deletedList.id},
        !.dataByList = [id \in (DOMAIN @) \ {deletedList.id} |-> @[id]]]

\* ------------------------------------------------- list page and item page
\* frontend/src/hooks/useLists.js and useItems.js (for list 1).  page.lists is
\* the `lists` state of useLists; page.byCategory is itemsState.itemsByCategory
\* (a function from category ids to arrays of rows), page.selected the id of
\* the selected category (0 for none), page.nameOrderAsc, page.showBought and
\* page.showNotBought the sort and filter states.  page.loads are the fetches
\* waiting for their response, page.pushed the INSERT events already
\* delivered, page.event and page.before the last event or handler and the
\* collections it found, page.saved whether that handler's save succeeded.
NoPageEvent == [type |-> "none", table |-> "none", id |-> 0, categoryId |-> 0]

PageMounted ==
    [lists |-> <<>>, byCategory |-> <<>>, selected |-> 0,
     nameOrderAsc |-> TRUE, showBought |-> TRUE, showNotBought |-> TRUE,
     loads |-> {}, pushed |-> {}, event |-> NoPageEvent,
     before |-> [lists |-> <<>>, byCategory |-> <<>>], saved |-> FALSE]

\* the record of an event or handler that found the page as it is
Recorded(type, table, id, categoryId) ==
    [page EXCEPT !.event = [type |-> type, table |-> table, id |-> id,
                            categoryId |-> categoryId],
                 !.before = [lists |-> page.lists, byCategory |-> page.byCategory],
                 !.saved = FALSE]

\* a.name.localeCompare(b.name) on names of the same case: -1, 0 or 1
LocaleCompare(a, b) ==
    IF a = b THEN 0 ELSE IF TextLeq(a, b) THEN 0 - 1 ELSE 1

\* Array.prototype.sort with that comparison is stable: x goes behind every
\* row it does not precede
RECURSIVE InsertSorted(_, _, _)
InsertSorted(sorted, x, asc) ==
    IF sorted = <<>> THEN <<x>>
    ELSE LET last == sorted[Len(sorted)]
             c == IF asc THEN LocaleCompare(last.name, x.name)
                  ELSE LocaleCompare(x.name, last.name)
         IN  IF c <= 0 THEN Append(sorted, x)
             ELSE Append(InsertSorted(SubSeq(sorted, 1, Len(sorted) - 1), x, asc),
                         last)

RECURSIVE SortByName(_, _)
SortByName(rows, asc) ==
    IF rows = <<>> THEN <<>>
    ELSE InsertSorted(SortByName(SubSeq(rows, 1, Len(rows) - 1), asc),
                      rows[Len(rows)], asc)

\* sortItems as the closure made under the sort and filter states f
sortItems(itemsArray, f) ==
    LET Shown(item) == \/ (item.bought /\ f.showBought)
                       \/ (~item.bought /\ f.showNotBought)
    IN  SortByName(SelectSeq(itemsArray, Shown), f.nameOrderAsc)

\* the sort and filter states a closure is made under
SortStates(pg) ==
    [nameOrderAsc |-> pg.nameOrderAsc, showBought |-> pg.showBought,
     showNotBought |-> pg.showNotBought]

\* prev.itemsByCategory[categoryId] || []
Grouping(pg, categoryId) ==
    IF categoryId \in DOMAIN pg.byCategory THEN pg.byCategory[categoryId] ELSE <<>>

\* rows.map(r => r.id === row.id ? row : r)
ReplaceById(rows, row) ==
    [k \in DOMAIN rows |-> IF rows[k].id = row.id THEN row ELSE rows[k]]

\* rows.filter(r => r.id !== id)
RECURSIVE RemoveById(_, _)
RemoveById(rows, id) ==
    IF rows = <<>> THEN <<>>
    ELSE IF Head(rows).id = id THEN RemoveById(Tail(rows), id)
    ELSE <<Head(rows)>> \o RemoveById(Tail(rows), id)

\* getAllLists: the orders findMany({ orderBy: { createdAt: 'desc' } }) may
\* return the lists in
getAllLists ==
    {q \in [1..Cardinality(lists) -> lists] :
        /\ \A i, j \in DOMAIN q : i # j => q[i] # q[j]
        /\ \A i, j \in DOMAIN q : i < j => q[i].createdAt >= q[j].createdAt}

\* the fetches a page waits for: that of loadLists, and that of a
\* loadItems(categoryId) call with the sortItems closure it was made with
ListsLoad ==
    [kind |-> "lists", categoryId |-> 0,
     f |-> [nameOrderAsc |-> TRUE, showBought |-> TRUE, showNotBought |-> TRUE]]
ItemsLoad(categoryId, f) == [kind |-> "items", categoryId |-> categoryId, f |-> f]

\* frontend validators/itemValidator.js: validateItemUpdate
formValidateItemUpdate(item) ==
    LET name == OptTrim(item.name)
        brand == OptTrim(item.brand)
        comments == OptTrim(item.comments)
    IN  (IF name = <<>> \/ Len(name) > MaxItemNameLen THEN {"name"} ELSE {})
        \cup (IF \/ (item.quantity.t = "number" /\ item.quantity.v = 0)
                 \/ (item.quantity.t = "string" /\ item.quantity.v = <<"0">>)
                 \/ (item.quantity.t = "string" /\ item.quantity.v = <<>>)
                 \/ item.quantity.t = "null"
              THEN {"quantity"} ELSE {})
        \cup (IF brand # <<>> /\ Len(brand) > MaxBrandLen THEN {"brand"} ELSE {})
        \cup (IF ~Truthy(item.unitId) \/ Number(item.unitId).v = 0
              THEN {"unitId"} ELSE {})
        \cup (IF comments # <<>> /\ Len(comments) > MaxCommentsLen
              THEN {"comments"} ELSE {})

\* JSON.stringify(item): the fields of a local row the server reads
ItemPayload(row) ==
    [name |-> Str(row.name), quantity |-> Num(row.quantity), brand |-> row.brand,
     unitId |-> Num(row.unitId), comments |-> row.comments,
     bought |-> Bool(row.bought)]

\* handleFieldUpdate(itemId, field, value) for the fields name and bought
handleFieldUpdate(itemId, field, value) ==
    LET updated == [k \in DOMAIN Grouping(page, page.selected) |->
                      LET item == Grouping(page, page.selected)[k] IN
                      IF item.id # itemId THEN item
                      ELSE IF field = "name" THEN [item EXCEPT !.name = value]
                      ELSE [item EXCEPT !.bought = value]]
    IN  [page EXCEPT
            !.byCategory = (page.selected :> sortItems(updated, SortStates(page)))
                           @@ @]

\* useLists: onInsert, onUpdate, onDelete of the list subscription
useListsOnInsert(newList) ==
    [Recorded("insert", "List", newList.id, 0) EXCEPT
        !.lists = <<newList>> \o @,
        !.pushed = @ \cup {<<"List", newList.id>>}]

useListsOnUpdate(updatedList) ==
    [Recorded("update", "List", updatedList.id, 0) EXCEPT
        !.lists = ReplaceById(@, updatedList)]

useListsOnDelete(deletedList) ==
    [Recorded("delete", "List", deletedList.id, 0) EXCEPT
        !.lists = RemoveById(@, deletedList.id)]

\* useItems: onInsert, onUpdate, onDelete of the item subscription
useItemsOnInsert_Append(newItem) ==
    [Recorded("insert", "Item", newItem.id, newItem.categoryId) EXCEPT
        !.byCategory =
            (newItem.categoryId :>
                Append(Grouping(page, newItem.categoryId), newItem)) @@ @,
        !.pushed = @ \cup {<<"Item", newItem.id>>}]

useItemsOnInsert(newItem) ==
    [Recorded("insert", "Item", newItem.id, newItem.categoryId) EXCEPT
        !.byCategory =
            (newItem.categoryId :>
                sortItems(Append(Grouping(page, newItem.categoryId), newItem),
                          SortStates(page))) @@ @,
        !.pushed = @ \cup {<<"Item", newItem.id>>}]

useItemsOnUpdate(updatedItem) ==
    [Recorded("update", "Item", updatedItem.id, updatedItem.categoryId) EXCEPT
        !.byCategory =
            (updatedItem.categoryId :>
                sortItems(ReplaceById(Grouping(page, updatedItem.categoryId),
                                      updatedItem),
                          SortStates(page))) @@ @]

useItemsOnDelete(deletedItem) ==
    [Recorded("delete", "Item", deletedItem.id, 0) EXCEPT
        !.byCategory = [c \in DOMAIN @ |-> RemoveById(@[c], deletedItem.id)]]

\* ------------------------------------------------------------------ inputs
\* path parameters arrive as text: the ids a table can hold, a text that is
\* no number, and a text that only starts with one
Ids(max) == {ToStr(i) : i \in 1..max}
IdTexts(max) == Ids(max) \cup {<<"x">>, <<"1", "x">>}

NameABC == Str(<<"A", "B", "C">>)
\* "ABC" followed by spaces, 51 characters in all
NamePadded == Str(<<"A", "B", "C">> \o Rep(" ", MaxListNameLen - 2))
ListNames ==
    {Undefined, Str(<<>>), Str(<<"A", "B">>), NameABC,
     Str(Rep("A", MaxListNameLen)), Str(Rep("A", MaxListNameLen + 1)), NamePadded}

ItemA == [EmptyBody EXCEPT !.name = Str(<<"a">>), !.quantity = Num(2),
                           !.unitId = Num(1)]
ItemB == [EmptyBody EXCEPT !.name = Str(<<" ", "b">>), !.quantity = Str(<<"2">>),
                           !.unitId = Str(<<"1">>)]
\* the bodies POST .../items is tried with
AddBodies ==
    {ItemA, ItemB,
     [ItemA EXCEPT !.quantity = Str(<<"0">>)],
     [ItemB EXCEPT !.quantity = Num(0 - 1)],
     [ItemA EXCEPT !.name = Undefined],
     [ItemA EXCEPT !.name = Str(Rep("a", MaxItemNameLen + 1))],
     [ItemA EXCEPT !.brand = Str(Rep("b", MaxBrandLen + 1))],
     [ItemA EXCEPT !.comments = Str(Rep("c", MaxCommentsLen + 1))],
     [ItemA EXCEPT !.unitId = Num(0)],
     [ItemA EXCEPT !.unitId = Num(9)],
     [ItemA EXCEPT !.unitId = Str(<<"x">>)]}

\* the bodies PUT /api/items/:id is tried with
UpdateBodies ==
    {EmptyBody,
     [EmptyBody EXCEPT !.comments = Str(<<"c">>)],
     [EmptyBody EXCEPT !.bought = Bool(TRUE)],
     [EmptyBody EXCEPT !.name = Str(<<"b">>), !.quantity = Num(2), !.unitId = Num(1)],
     [EmptyBody EXCEPT !.name = Str(<<"b">>), !.quantity = Str(<<"2">>),
                       !.unitId = Num(1)]}

\* the bodies PATCH /api/items/:id is tried with
BoughtBodies ==
    {[EmptyBody EXCEPT !.bought = b] : b \in {Bool(TRUE), Bool(FALSE),
                                             Str(<<"1">>), Undefined}}

CategoryNames == {Undefined, Str(<<"c", "1">>), Str(<<"c", "2">>)}

\* month texts: four-digit years, among them years below 100, leap years and
\* the century years 1900 and 2000, with the two-digit numbers 00 to 13
TwoDigits(n) == <<DigitChars[(n \div 10) + 1], DigitChars[(n % 10) + 1]>>
YearTexts ==
    {<<"0", "0", "0", "0">>, <<"0", "0", "5", "0">>, <<"0", "0", "9", "9">>,
     <<"0", "1", "0", "0">>, <<"1", "9", "0", "0">>, <<"1", "9", "7", "0">>,
     <<"1", "9", "9", "9">>, <<"2", "0", "0", "0">>, <<"2", "0", "2", "3">>,
     <<"2", "0", "2", "4">>, <<"2", "1", "0", "0">>}
MonthTexts == {y \o <<"-">> \o TwoDigits(m) : y \in YearTexts, m \in 0..13}

\* texts that are not YYYY-MM: wrong separator, a non-digit, a missing leading
\* zero, blanks around, a third month digit, the empty text
Feb2024 == <<"2", "0", "2", "4", "-", "0", "2">>
MalformedMonths ==
    {Undefined,
     Str(<<>>),
     Str(<<"2", "0", "2", "4", "/", "0", "2">>),
     Str(<<"2", "0", "2", "4", "0", "2">>),
     Str(<<"2", "0", "2", "x", "-", "0", "2">>),
     Str(<<"2", "0", "2", "4", "-", "2">>),
     Str(<<"2", "4", "-", "0", "2">>),
     Str(<<" ">> \o Feb2024),
     Str(Feb2024 \o <<" ">>),
     Str(Feb2024 \o <<"1">>)}

\* The arguments of the actions in Next are named here and below: TLC
\* evaluates a named constant once, before the search starts.
OnlyNameABC == {NameABC}
FirstId == {ToStr(1)}
FirstCategory == {1}
OnlyItemA == {ItemA}
BothItems == {ItemA, ItemB}
BoughtTrue == {[EmptyBody EXCEPT !.bought = Bool(TRUE)]}
NewCategoryNames == {Str(<<"c", "2">>)}
SortAndFilterStates == {"nameOrderAsc", "showBought", "showNotBought"}

\* ------------------------------------------------------------------ routes
\* One action per route.  Each takes the inputs it is driven with; a creating
\* route also takes the last id its sequence may hand out.
NoText == <<>>

CreateList(names, maxId) ==
    /\ nextListId <= maxId
    /\ \E name \in names :
        LET body == [EmptyBody EXCEPT !.name = name] IN
        /\ Receive("createList", NoText, NoText, body)
        /\ Validated(ListValidatorThrows(body), validateListCreation(body),
                     createList(body))
        /\ UNCHANGED <<globalPrisma, now, hook, inflight, page>>

UpdateListName(ids, names) ==
    \E p \in ids, name \in names :
        LET body == [EmptyBody EXCEPT !.name = name] IN
        /\ Receive("updateListName", p, NoText, body)
        /\ Validated(ListValidatorThrows(body), validateListUpdate(body),
                     updateListName(p, body))
        /\ UNCHANGED <<globalPrisma, now, hook, inflight, page>>

DeleteList(ids) ==
    \E p \in ids, onDelete \in ReferentialActions :
        /\ Receive("deleteList", p, NoText, EmptyBody)
        /\ asyncHandler(deleteList(p, onDelete), 0)
        /\ UNCHANGED <<globalPrisma, now, hook, inflight, page>>

\* DELETE /api/lists/:id up to the return of item.deleteMany
DeleteListDeleteMany(ids) ==
    /\ inflight.op = "none"
    /\ \E p \in ids :
        /\ parseInt(p).t # "NaN"
        /\ items' = deleteManyItems(parseInt(p).v)
        /\ inflight' = [op |-> "deleteList", p |-> p,
                        old |-> [lists |-> lists, items |-> items,
                                 categories |-> categories]]
    /\ UNCHANGED <<lists, categories, nextListId, nextItemId, nextCategoryId,
                   globalPrisma, now, hook, req, resp, old, sends, page>>

\* the same request from list.delete to its response
DeleteListDelete ==
    /\ inflight.op = "deleteList"
    /\ \E onDelete \in ReferentialActions :
        /\ req' = [op |-> "deleteList", id |-> inflight.p, id2 |-> NoText,
                   body |-> EmptyBody, month |-> Undefined]
        /\ old' = inflight.old
        /\ asyncHandler(deleteListAfterDeleteMany(parseInt(inflight.p).v, onDelete), 0)
    /\ inflight' = NoneInFlight
    /\ UNCHANGED <<globalPrisma, now, hook, page>>

AddItem(listIds, categoryIds, bodies, maxId) ==
    /\ nextItemId <= maxId
    /\ \E l \in listIds, c \in categoryIds, body \in bodies :
        /\ Receive("addItemToCategory", l, c, body)
        /\ Validated(ItemValidatorThrows(body), validateItemAddition(body),
                     addItemToCategory(l, c, body))
        /\ UNCHANGED <<globalPrisma, now, hook, inflight, page>>

GetItems(listIds, categoryIds) ==
    \E l \in listIds, c \in categoryIds :
        /\ Receive("getItemsByListAndCategory", l, c, EmptyBody)
        /\ asyncHandler(getItemsByListAndCategory(l, c), 0)
        /\ UNCHANGED <<globalPrisma, now, hook, inflight, page>>

UpdateItem(ids, bodies) ==
    \E p \in ids, body \in bodies :
        /\ Receive("updateItem", p, NoText, body)
        /\ Validated(ItemValidatorThrows(body), validateItemUpdate(body),
                     updateItem(p, body))
        /\ UNCHANGED <<globalPrisma, now, hook, inflight, page>>

UpdateBought(ids, bodies) ==
    \E p \in ids, body \in bodies :
        /\ Receive("updateBoughtStatus", p, NoText, body)
        /\ asyncHandler(updateBoughtStatus(p, body), 0)
        /\ UNCHANGED <<globalPrisma, now, hook, inflight, page>>

DeleteItem(ids) ==
    \E p \in ids :
        /\ Receive("deleteItem", p, NoText, EmptyBody)
        /\ asyncHandler(deleteItem(p), 0)
        /\ UNCHANGED <<globalPrisma, now, hook, inflight, page>>

CreateCategory(names, maxId) ==
    /\ nextCategoryId <= maxId
    /\ \E name \in names :
        LET body == [EmptyBody EXCEPT !.name = name] IN
        /\ Receive("createCategory", NoText, NoText, body)
        /\ asyncHandler(createCategory(body), 0)
        /\ UNCHANGED <<globalPrisma, now, hook, inflight, page>>

DeleteCategory(ids) ==
    \E p \in ids, onDelete \in ReferentialActions :
        /\ Receive("deleteCategory", p, NoText, EmptyBody)
        /\ asyncHandler(deleteCategory(p, onDelete), 0)
        /\ UNCHANGED <<globalPrisma, now, hook, inflight, page>>

GetStatsByList(ids) ==
    \E p \in ids :
        /\ Receive("getStatsByList", p, NoText, EmptyBody)
        /\ asyncHandler(getStatsByList(p), 0)
        /\ UNCHANGED <<globalPrisma, now, hook, inflight, page>>

GetMonthlyStats(months) ==
    \E month \in months :
        /\ ReceiveQuery("getMonthlyStats", month)
        /\ asyncHandler(getMonthlyStats(month), 0)
        /\ UNCHANGED <<globalPrisma, now, hook, inflight, page>>

\* parseMonth applied to a text on its own; resp carries what it returned
ParseMonth(months) ==
    \E month \in months :
        LET range == parseMonth(month) IN
        /\ ReceiveQuery("parseMonth", month)
        /\ IF range.ok
           THEN Reply(Response(200, JsonBody([start |-> range.start,
                                              end |-> range.end])))
           ELSE Reply(errorHandler(range.error))
        /\ NoWrite
        /\ UNCHANGED <<globalPrisma, now, hook, sends, inflight, page>>

\* computeCategoriesBreakdown applied to an item array on its own; `items`
\* holds the array, resp what it returned
Breakdown ==
    /\ req.op = "none"
    /\ ReceiveQuery("computeCategoriesBreakdown", Undefined)
    /\ Reply(Response(200, JsonBody(computeCategoriesBreakdown(items))))
    /\ NoWrite
    /\ UNCHANGED <<globalPrisma, now, hook, sends, inflight, page>>

\* ---------------------------------------------------------- time and hook
\* the days the clock passes through: the last day of January 2024, the first
\* and the last day of February, the first day of March
ClockDays ==
    <<MakeDay(2024, 0, 31), MakeDay(2024, 1, 1), MakeDay(2024, 1, 29),
      MakeDay(2024, 2, 1)>>

ServerIdle ==
    UNCHANGED <<lists, items, categories, nextListId, nextItemId, nextCategoryId,
                globalPrisma, req, resp, old, sends, inflight>>

\* a day passes
Tick ==
    /\ \E k \in 1..(Len(ClockDays) - 1) : now = ClockDays[k] /\ now' = ClockDays[k + 1]
    /\ ServerIdle
    /\ UNCHANGED <<hook, page>>

\* the fetch of loadMonthData settles
LoadMonthData(months) ==
    /\ \E m \in months : \E h \in loadMonthData(m) :
          hook' = [h EXCEPT !.month = m]
    /\ ServerIdle
    /\ UNCHANGED <<now, page>>

\* the realtime channel delivers an item event of a subscribed list; maxTotal
\* caps the quantity insert events may pile up locally
OnItemInsert(categoryIds, maxTotal) ==
    /\ \E l \in hook.lists, c \in categoryIds :
        /\ l \in DOMAIN hook.dataByList =>
               SumQuantity(hook.dataByList[l].categories) < maxTotal
        /\ hook' = updateItemInData(l, [listId |-> l, categoryId |-> c], "insert")
    /\ ServerIdle
    /\ UNCHANGED <<now, page>>

OnItemUpdate(categoryIds) ==
    /\ \E l \in hook.lists, c \in categoryIds :
        hook' = updateItemInData(l, [listId |-> l, categoryId |-> c], "update")
    /\ ServerIdle
    /\ UNCHANGED <<now, page>>

OnItemDelete(categoryIds) ==
    /\ \E l \in hook.lists, c \in categoryIds :
        hook' = updateItemInData(l, [listId |-> l, categoryId |-> c], "delete")
    /\ ServerIdle
    /\ UNCHANGED <<now, page>>

\* handleMonthChange: setMonth(m) makes the effect call loadMonthData(m)
HandleMonthChange(months) ==
    /\ \E m \in months :
        /\ m # hook.month
        /\ hook' = [hook EXCEPT !.month = m, !.loading = @ \cup {m}]
    /\ ServerIdle
    /\ UNCHANGED <<now, page>>

\* the fetch of one of the loadMonthData calls settles, in any order
LoadMonthDataSettles ==
    /\ \E m \in hook.loading : \E h \in loadMonthData(m) :
          hook' = [h EXCEPT !.loading = @ \ {m}]
    /\ ServerIdle
    /\ UNCHANGED <<now, page>>

\* the realtime channel delivers a list event: INSERT and UPDATE carry a
\* stored row, DELETE the id of a row that is gone
OnListInsert ==
    /\ \E l \in lists : l.id \notin hook.lists /\ hook' = onListInsert(l)
    /\ ServerIdle
    /\ UNCHANGED <<now, page>>

OnListUpdate ==
    /\ \E l \in lists : hook' = onListUpdate(l)
    /\ ServerIdle
    /\ UNCHANGED <<now, page>>

OnListDelete ==
    /\ \E id \in (1..(nextListId - 1)) \ ListIds :
          hook' = onListDelete([id |-> id])
    /\ ServerIdle
    /\ UNCHANGED <<now, page>>

\* the server and the statistics hook are left alone
PageOnly ==
    /\ ServerIdle
    /\ UNCHANGED <<now, hook>>

\* useLists: loadLists is called (on mount, and by handleCreate after its
\* POST); its fetch settles later with the lists stored then
LoadLists ==
    /\ ListsLoad \notin page.loads
    /\ page' = [page EXCEPT !.loads = @ \cup {ListsLoad}]
    /\ PageOnly

LoadListsSettles ==
    /\ ListsLoad \in page.loads
    /\ \E data \in getAllLists :
          page' = [Recorded("load", "List", 0, 0) EXCEPT
                      !.lists = data,
                      !.loads = @ \ {ListsLoad}]
    /\ PageOnly

\* the realtime channel delivers a list event: an INSERT once per stored row,
\* an UPDATE with a stored row, a DELETE with the id of a row that is gone
PageOnListInsert ==
    /\ \E l \in lists :
        /\ <<"List", l.id>> \notin page.pushed
        /\ page' = useListsOnInsert(l)
    /\ PageOnly

PageOnListUpdate ==
    /\ \E l \in lists : page' = useListsOnUpdate(l)
    /\ PageOnly

PageOnListDelete ==
    /\ \E id \in (1..(nextListId - 1)) \ ListIds :
          page' = useListsOnDelete([id |-> id])
    /\ PageOnly

\* useItems (list 1): a category is selected, the effect calls loadItems
SelectCategory(categoryIds) ==
    /\ Cardinality(page.loads) < MaxPageLoads
    /\ \E c \in categoryIds :
        /\ c # page.selected
        /\ page' = [page EXCEPT
                       !.event = NoPageEvent,
                       !.selected = c,
                       !.loads = @ \cup {ItemsLoad(c, SortStates(page))}]
    /\ PageOnly

\* one of the sort and filter states is switched; loadItems is a new function
\* and the effect calls it for the selected category
SwitchSortOrFilter(names) ==
    /\ Cardinality(page.loads) < MaxPageLoads
    /\ \E name \in names :
        LET switched == [page EXCEPT ![name] = ~@, !.event = NoPageEvent] IN
        page' = IF page.selected = 0 THEN switched
                ELSE [switched EXCEPT
                         !.loads = @ \cup {ItemsLoad(page.selected,
                                                     SortStates(switched))}]
    /\ PageOnly

\* the fetch of a loadItems call settles with the items stored then
LoadItemsSettles ==
    /\ \E load \in page.loads :
        /\ load.kind = "items"
        /\ \E data \in OrderedByName({i \in items : i.listId = 1
                                         /\ i.categoryId = load.categoryId}) :
              page' = [Recorded("load", "Item", 0, load.categoryId) EXCEPT
                          !.byCategory =
                              (load.categoryId :> sortItems(data, load.f)) @@ @,
                          !.loads = @ \ {load}]
    /\ PageOnly

\* the row image an INSERT event carries: addItemToCategory stores no bought
\* value, so the column default false, and bought is the only field of a
\* stored item that the specifications with a page change afterwards
AsInserted(i) == [i EXCEPT !.bought = FALSE]

\* the realtime channel delivers an item event of list 1
PageOnItemInsert ==
    /\ \E i \in items :
        /\ i.listId = 1
        /\ <<"Item", i.id>> \notin page.pushed
        /\ page' = useItemsOnInsert(AsInserted(i))
    /\ PageOnly

\* (an UPDATE event of a row that an update has changed since its INSERT)
PageOnItemUpdate ==
    /\ \E i \in items :
        /\ i.listId = 1
        /\ i # AsInserted(i)
        /\ page' = useItemsOnUpdate(i)
    /\ PageOnly

PageOnItemDelete ==
    /\ \E id \in (1..(nextItemId - 1)) \ ItemIds :
          page' = useItemsOnDelete([id |-> id])
    /\ PageOnly

\* the name field of a shown item is emptied in the form
HandleFieldUpdate ==
    /\ page.selected # 0
    /\ \E k \in DOMAIN Grouping(page, page.selected) :
        LET item == Grouping(page, page.selected)[k] IN
        /\ item.name # <<>>
        /\ page' = [handleFieldUpdate(item.id, "name", <<>>) EXCEPT
                       !.event = NoPageEvent]
    /\ PageOnly

\* handleBought(itemId, bought) from the click to the end of its save
HandleBought ==
    /\ page.selected # 0
    /\ \E k \in DOMAIN Grouping(page, page.selected), bought \in BOOLEAN :
        LET item == Grouping(page, page.selected)[k]
            toSave == [item EXCEPT !.bought = bought]
            local == [handleFieldUpdate(item.id, "bought", bought) EXCEPT
                         !.event = [type |-> "bought", table |-> "Item",
                                    id |-> item.id, categoryId |-> page.selected],
                         !.before = [lists |-> page.lists,
                                     byCategory |-> page.byCategory]]
        IN
        IF formValidateItemUpdate(ItemPayload(toSave)) # {}
        THEN /\ page' = [local EXCEPT !.saved = FALSE]
             /\ ServerIdle
        ELSE /\ Receive("updateItem", ToStr(item.id), NoText, ItemPayload(toSave))
             /\ Validated(ItemValidatorThrows(ItemPayload(toSave)),
                          validateItemUpdate(ItemPayload(toSave)),
                          updateItem(ToStr(item.id), ItemPayload(toSave)))
             /\ page' = [local EXCEPT !.saved = (resp'.status = 200)]
             /\ UNCHANGED <<globalPrisma, inflight>>
    /\ UNCHANGED <<now, hook>>

\* the fetch of a reloadList call settles
ReloadListSettles ==
    /\ \E l \in hook.fetching : hook' = reloadList(l)
    /\ ServerIdle
    /\ UNCHANGED <<now, page>>

\* ----------------------------------------------------------- specifications
NoRequest ==
    [op |-> "none", id |-> NoText, id2 |-> NoText, body |-> EmptyBody,
     month |-> Undefined]

\* the server has started on a migrated and seeded database holding `ls`
\* lists; `env` are the values globalThis.prisma may have been given
Started(ls, env) ==
    /\ lists = ls
    /\ items = {}
    /\ categories = SeedCategories
    /\ nextListId = Cardinality(ls) + 1
    /\ nextItemId = 1
    /\ nextCategoryId = Cardinality(SeedCategories) + 1
    /\ globalPrisma \in env
    /\ now = ClockDays[1]
    /\ hook = HookMounted
    /\ req = NoRequest
    /\ resp = Response(0, NoBody)
    /\ sends = 0
    /\ inflight = NoneInFlight
    /\ page = PageMounted
    /\ old = [lists |-> ls, items |-> {}, categories |-> SeedCategories]

\* SpecWrites: the seven writing routes that create and delete the rows items
\* refer to
InitWrites == Started({}, {FALSE})

WritesIds == Ids(MaxRowId)
WritesBodies == {ItemA, [ItemA EXCEPT !.unitId = Num(9)]}

NextWrites ==
    \/ CreateList(OnlyNameABC, MaxRowId)
    \/ DeleteList(WritesIds)
    \/ AddItem(WritesIds, WritesIds, WritesBodies, MaxRowId)
    \/ UpdateItem(WritesIds, WritesBodies)
    \/ DeleteItem(WritesIds)
    \/ CreateCategory(NewCategoryNames, MaxRowId)
    \/ DeleteCategory(WritesIds)

SpecWrites == InitWrites /\ [][NextWrites]_vars

\* Spec: the whole API on an empty seeded database; NODE_ENV decides whether
\* client.js has set globalThis.prisma
Init == Started({}, BOOLEAN)

AllListNames == {Undefined, Str(<<"A", "B">>), NameABC}
AllRenames == {Undefined, NameABC}
AllListIds == IdTexts(MaxListId)
AllCategoryIds == Ids(MaxCategoryId) \cup {<<"x">>}
AllItemIds == IdTexts(MaxItemId)
AllAddBodies == {ItemA, [ItemA EXCEPT !.quantity = Str(<<"0">>)]}
AllUpdateBodies == {EmptyBody, ItemA}
AllBoughtBodies == {[EmptyBody EXCEPT !.bought = Bool(TRUE)], EmptyBody}

Next ==
    \/ CreateList(AllListNames, MaxListId)
    \/ UpdateListName(AllListIds, AllRenames)
    \/ DeleteList(AllListIds)
    \/ AddItem(AllListIds, AllCategoryIds, AllAddBodies, MaxItemId)
    \/ GetItems(AllListIds, AllCategoryIds)
    \/ UpdateItem(AllItemIds, AllUpdateBodies)
    \/ UpdateBought(AllItemIds, AllBoughtBodies)
    \/ DeleteItem(AllItemIds)
    \/ CreateCategory(CategoryNames, MaxCategoryId)
    \/ DeleteCategory(AllCategoryIds)
    \/ GetStatsByList(AllListIds)

Spec == Init /\ [][Next]_vars

\* SpecItems: the item routes of one stored list, driven with the bodies a
\* form can send
\* the List table holding one list, created on the first day of the clock
OneList == {[id |-> 1, name |-> NameABC.v, createdAt |-> ClockDays[1]]}

InitItems ==
    Started(OneList, {FALSE})

FormItemIds == Ids(MaxFormItemId)

NextItems ==
    \/ AddItem(FirstId, FirstId, AddBodies, MaxFormItemId)
    \/ GetItems(FirstId, FirstId)
    \/ UpdateItem(FormItemIds, UpdateBodies)
    \/ UpdateBought(FormItemIds, BoughtBodies)
    \/ DeleteItem(FormItemIds)

SpecItems == InitItems /\ [][NextItems]_vars

\* SpecLists: the list routes, driven with the names a form can send
InitLists == Started({}, {FALSE})

FormListIds == Ids(MaxListId)

NextLists ==
    \/ CreateList(ListNames, MaxListId)
    \/ UpdateListName(FormListIds, ListNames)
    \/ DeleteList(FormListIds)

SpecLists == InitLists /\ [][NextLists]_vars

\* SpecMonth: parseMonth on month texts
InitMonth == Started({}, {FALSE})

MonthInputs == {Str(m) : m \in MonthTexts} \cup MalformedMonths

NextMonth == ParseMonth(MonthInputs)

SpecMonth == InitMonth /\ [][NextMonth]_vars

\* SpecMonthly: lists created on different days, and the monthly statistics
\* asked for with well-formed and malformed month texts
MonthlyQueries ==
    {Str(<<"2", "0", "2", "4", "-", "0", "1">>), Str(Feb2024),
     Str(<<"2", "0", "2", "4", "-", "0", "3">>)} \cup MalformedMonths

InitMonthly == Started({}, {FALSE})

MonthlyListIds == Ids(MaxMonthlyListId)

NextMonthly ==
    \/ Tick
    \/ CreateList(OnlyNameABC, MaxMonthlyListId)
    \/ AddItem(MonthlyListIds, FirstId, OnlyItemA, MaxMonthlyItemId)
    \/ GetMonthlyStats(MonthlyQueries)

SpecMonthly == InitMonthly /\ [][NextMonthly]_vars

\* SpecTotals: two lists of January 2024 filled with items of two categories,
\* and both statistics routes
Jan2024 == <<"2", "0", "2", "4", "-", "0", "1">>
TotalsLists ==
    {[id |-> 1, name |-> NameABC.v, createdAt |-> ClockDays[1]],
     [id |-> 2, name |-> NameABC.v, createdAt |-> ClockDays[1]]}
TotalsListIds == {ToStr(l.id) : l \in TotalsLists}

InitTotals == Started(TotalsLists, BOOLEAN)

TotalsCategoryIds == Ids(MaxTotalsCategoryId)
January == {Str(Jan2024)}

NextTotals ==
    \/ CreateCategory(NewCategoryNames, MaxTotalsCategoryId)
    \/ AddItem(TotalsListIds, TotalsCategoryIds, OnlyItemA, MaxTotalsItemId)
    \/ GetMonthlyStats(January)
    \/ GetStatsByList(TotalsListIds)

SpecTotals == InitTotals /\ [][NextTotals]_vars

\* SpecBreakdown: computeCategoriesBreakdown on item arrays; an array is given
\* by the number of its items in each category
ItemArray(n) ==
    {r \in {[id |-> (c - 1) * MaxItemsPerCategory + j, listId |-> 1, categoryId |-> c]
              : c \in 1..MaxBreakdownCategories, j \in 1..MaxItemsPerCategory} :
        r.id - (r.categoryId - 1) * MaxItemsPerCategory <= n[r.categoryId]}

InitBreakdown ==
    /\ lists = {}
    /\ items \in {ItemArray(n) :
                    n \in [1..MaxBreakdownCategories -> 0..MaxItemsPerCategory]}
    /\ categories = SeedCategories
    /\ nextListId = 1
    /\ nextItemId = 1
    /\ nextCategoryId = Cardinality(SeedCategories) + 1
    /\ globalPrisma = FALSE
    /\ now = ClockDays[1]
    /\ hook = HookMounted
    /\ req = NoRequest
    /\ resp = Response(0, NoBody)
    /\ sends = 0
    /\ inflight = NoneInFlight
    /\ page = PageMounted
    /\ old = [lists |-> {}, items |-> items, categories |-> SeedCategories]

NextBreakdown == Breakdown

SpecBreakdown == InitBreakdown /\ [][NextBreakdown]_vars

\* SpecHook: the statistics hook showing January 2024 while items of the one
\* list come and go on the server and item events arrive
InitHook ==
    Started(OneList, BOOLEAN)

HookCategoryIds == Ids(MaxHookCategories)
HookItemIds == Ids(MaxHookItemId)
HookCategories == 1..MaxHookCategories

NextHook ==
    \/ CreateCategory(NewCategoryNames, MaxHookCategories)
    \/ AddItem(FirstId, HookCategoryIds, OnlyItemA, MaxHookItemId)
    \/ DeleteItem(HookItemIds)
    \/ LoadMonthData(January)
    \/ OnItemInsert(HookCategories, MaxTrackedQuantity)
    \/ OnItemUpdate(HookCategories)
    \/ OnItemDelete(HookCategories)
    \/ ReloadListSettles

SpecHook == InitHook /\ [][NextHook]_vars

\* SpecChain: the list routes and the monthly statistics route, each request
\* taken through validateRequest, the wrapped controller and errorHandler
ChainMonths == {Undefined, Str(Jan2024), Str(Feb2024)}

InitChain == Started({}, {FALSE})

NextChain ==
    \/ CreateList(ListNames, MaxListId)
    \/ UpdateListName(FormListIds, ListNames)
    \/ DeleteList(FormListIds)
    \/ GetMonthlyStats(ChainMonths)

SpecChain == InitChain /\ [][NextChain]_vars

\* SpecStatsPage: the statistics page while lists are created, renamed and
\* deleted on the server, the month picker is used and list events arrive
StatsMonths == {InitialMonth, Str(Feb2024)}

InitStatsPage ==
    /\ lists = {}
    /\ items = {}
    /\ categories = SeedCategories
    /\ nextListId = 1
    /\ nextItemId = 1
    /\ nextCategoryId = Cardinality(SeedCategories) + 1
    /\ globalPrisma = FALSE
    /\ now = ClockDays[1]
    /\ hook = [HookMounted EXCEPT !.loading = {InitialMonth}]
    /\ req = NoRequest
    /\ resp = Response(0, NoBody)
    /\ sends = 0
    /\ inflight = NoneInFlight
    /\ page = PageMounted
    /\ old = [lists |-> {}, items |-> {}, categories |-> SeedCategories]

StatsListIds == Ids(MaxStatsListId)

NextStatsPage ==
    \/ Tick
    \/ CreateList(OnlyNameABC, MaxStatsListId)
    \/ UpdateListName(StatsListIds, OnlyNameABC)
    \/ DeleteList(StatsListIds)
    \/ HandleMonthChange(StatsMonths)
    \/ LoadMonthDataSettles
    \/ OnListInsert
    \/ OnListUpdate
    \/ OnListDelete

SpecStatsPage == InitStatsPage /\ [][NextStatsPage]_vars

\* SpecListPage: the list page while lists are created, renamed and deleted
\* on the server
InitListPage == Started({}, {FALSE})

PageListIds == Ids(MaxPageListId)
PageRenames == {Str(<<"A", "B", "D">>)}

NextListPage ==
    \/ CreateList(OnlyNameABC, MaxPageListId)
    \/ UpdateListName(PageListIds, PageRenames)
    \/ DeleteList(PageListIds)
    \/ LoadLists
    \/ LoadListsSettles
    \/ PageOnListInsert
    \/ PageOnListUpdate
    \/ PageOnListDelete

SpecListPage == InitListPage /\ [][NextListPage]_vars

\* SpecItemEvents: the item subscription of list 1 while items are added and
\* bought on the server and the sort direction and the filter are switched
\* (no category is selected, so nothing is fetched)
InitItemEvents ==
    Started(OneList, {FALSE})

NextItemEvents ==
    \/ AddItem(FirstId, FirstId, BothItems, MaxPageItemId)
    \/ UpdateBought(FirstId, BoughtTrue)
    \/ SwitchSortOrFilter(SortAndFilterStates)
    \/ PageOnItemInsert
    \/ PageOnItemUpdate

SpecItemEvents == InitItemEvents /\ [][NextItemEvents]_vars

\* SpecItemPage: the item page of list 1 while items are added and deleted
\* on the server, the category is selected, item events arrive and the form
\* is used
InitItemPage ==
    Started(OneList, {FALSE})

PageItemIds == Ids(MaxPageItemId)

NextItemPage ==
    \/ AddItem(FirstId, FirstId, OnlyItemA, MaxPageItemId)
    \/ DeleteItem(PageItemIds)
    \/ SelectCategory(FirstCategory)
    \/ LoadItemsSettles
    \/ PageOnItemInsert
    \/ PageOnItemDelete
    \/ HandleFieldUpdate
    \/ HandleBought

SpecItemPage == InitItemPage /\ [][NextItemPage]_vars

\* SpecRace: DELETE /api/lists/1 running beside POST and DELETE requests for
\* the items of that list
InitRace ==
    Started(OneList, {FALSE})

RaceItemIds == Ids(MaxRaceItemId)

NextRace ==
    \/ AddItem(FirstId, FirstId, BothItems, MaxRaceItemId)
    \/ DeleteItem(RaceItemIds)
    \/ DeleteListDeleteMany(FirstId)
    \/ DeleteListDelete

SpecRace == InitRace /\ [][NextRace]_vars

\* ------------------------------------------------------------------ claims
OldListIds == {l.id : l \in old.lists}
OldItemIds == {i.id : i \in old.items}
OldCategoryIds == {c.id : c \in old.categories}
TablesUnchanged ==
    lists = old.lists /\ items = old.items /\ categories = old.categories
\* a path parameter that is the decimal text of an integer
IsIntegerText(s) == s # <<>> /\ \A k \in 1..Len(s) : IsDigit(s[k])
\* the fields of the last request's body that are present
Present == {f \in ItemFields : req.body[f].t # "undefined"}

\* C1: DELETE /api/lists/:id on a stored list answers 204 and removes exactly
\* that list and the items whose listId is that id; every other list, every
\* item of another list and every category is as it was.
C1_DeleteListRemovesListAndItsItems ==
    \A k \in OldListIds :
        (req.op = "deleteList" /\ req.id = ToStr(k)) =>
            /\ resp.status = 204
            /\ lists = {l \in old.lists : l.id # k}
            /\ items = {i \in old.items : i.listId # k}
            /\ categories = old.categories

\* a list holding an item was deleted while another list kept its item
C1_Witness ==
    /\ req.op = "deleteList"
    /\ resp.status = 204
    /\ \E i \in old.items : ToStr(i.listId) = req.id
    /\ items # {}
    /\ lists # {}

\* C2: GET /api/statistics/list/:id answers 404 when no list has that id, and
\* for a stored list answers 200 with totalQuantity the number of the list's
\* item rows and one breakdown row per category of those items.
C2_StatsByListAnswers ==
    \A k \in 1..MaxListId :
        (req.op = "getStatsByList" /\ req.id = ToStr(k)) =>
            IF k \in ListIds
            THEN /\ resp.status = 200
                 /\ LET rows == {i \in items : i.listId = k}
                        out == resp.body.value
                    IN /\ out.totalQuantity = Cardinality(rows)
                       /\ {<<out.categories[n].categoryId, out.categories[n].quantity>>
                             : n \in DOMAIN out.categories}
                          = {<<c, Cardinality({i \in rows : i.categoryId = c})>>
                             : c \in {i.categoryId : i \in rows}}
            ELSE resp.status = 404

\* C3: PUT /api/items/:id on a stored item with exactly one recognized field
\* in the body answers 200, sets that field and leaves the others as they were.
C3_SingleFieldUpdateSucceeds ==
    \A k \in OldItemIds :
        (req.op = "updateItem" /\ req.id = ToStr(k) /\ Cardinality(Present) = 1) =>
            /\ resp.status = 200
            /\ \E before \in old.items, after \in items :
                /\ before.id = k /\ after.id = k
                /\ items \ {after} = old.items \ {before}
                /\ \A f \in {"name", "quantity", "brand", "unitId", "comments",
                            "bought", "listId", "categoryId"} \ Present :
                       after[f] = before[f]

\* C4: PUT /api/items/:id with none of the recognized fields in the body is
\* answered 400 and changes no stored row.
C4_EmptyUpdateRejected ==
    (req.op = "updateItem" /\ Present = {}) =>
        resp.status = 400 /\ TablesUnchanged

\* an empty PUT body was sent for a stored item
C4_Witness ==
    /\ req.op = "updateItem"
    /\ Present = {}
    /\ \E i \in items : ToStr(i.id) = req.id
    /\ resp.status = 400

\* C5: every stored item's listId, categoryId and unitId name a stored list,
\* a stored category and a stored unit.
C5_ItemsReferToStoredRows ==
    \A i \in items :
        /\ i.listId \in ListIds
        /\ i.categoryId \in CategoryIds
        /\ i.unitId \in SeedUnitIds

\* a category with an item was deleted and items are still stored, or an
\* item was refused for naming a row that is not stored
C5_Witness ==
    \/ /\ req.op = "deleteCategory"
       /\ resp.status = 204
       /\ old.items # items
       /\ items # {}
    \/ /\ req.op = "addItemToCategory"
       /\ resp.status = 500
       /\ items # {}

\* C6: every stored list name has between 3 and 50 characters.
C6_ListNamesWithinBounds ==
    \A l \in lists : Len(l.name) >= 3 /\ Len(l.name) <= 50

\* C7: every stored item has quantity above 0, a non-empty name of at most 50
\* characters, a brand of at most 50 and comments of at most 100 characters.
C7_ItemFieldsWithinBounds ==
    \A i \in items :
        /\ i.quantity > 0
        /\ Len(i.name) >= 1 /\ Len(i.name) <= 50
        /\ i.brand.t = "string" => Len(i.brand.v) <= 50
        /\ i.comments.t = "string" => Len(i.comments.v) <= 100

\* C8: adding an item with quantity "0" is answered 400 and stores nothing;
\* adding one with quantity 2, a name of 1 to 50 characters, a stored unit id
\* and brand and comments within their lengths is answered 201 and stores
\* exactly that row; GET .../items answers 200 with exactly the stored items
\* of that list and category, each once, ordered by name ascending.
C8_AddThenListedByName ==
    /\ (req.op = "addItemToCategory" /\ req.body.quantity = Str(<<"0">>)) =>
           resp.status = 400 /\ TablesUnchanged
    /\ (/\ req.op = "addItemToCategory"
        /\ req.body.quantity = Num(2)
        /\ req.body.name.t = "string"
        /\ Len(trim(req.body.name.v)) \in 1..50
        /\ Number(req.body.unitId).t = "number"
        /\ Number(req.body.unitId).v \in SeedUnitIds
        /\ Len(OptTrim(req.body.brand)) <= 50
        /\ Len(OptTrim(req.body.comments)) <= 100
        /\ \E l \in OldListIds : req.id = ToStr(l)
        /\ \E c \in OldCategoryIds : req.id2 = ToStr(c)) =>
           /\ resp.status = 201
           /\ \E new \in items \ old.items :
                /\ items = old.items \cup {new}
                /\ new.id \notin OldItemIds
                /\ new.quantity = 2
                /\ new.name = trim(req.body.name.v)
                /\ ToStr(new.listId) = req.id
                /\ ToStr(new.categoryId) = req.id2
    /\ (/\ req.op = "getItemsByListAndCategory"
        /\ IsIntegerText(req.id)
        /\ IsIntegerText(req.id2)) =>
           /\ resp.status = 200
           /\ LET q == resp.body.value IN
              /\ {q[n] : n \in DOMAIN q}
                 = {i \in items : ToStr(i.listId) = req.id
                                  /\ ToStr(i.categoryId) = req.id2}
              /\ \A m, n \in DOMAIN q : m # n => q[m] # q[n]
              /\ \A m, n \in DOMAIN q : m < n => TextLeq(q[m].name, q[n].name)

\* two items of different names were listed after the second was added
C8_Witness ==
    /\ req.op = "getItemsByListAndCategory"
    /\ resp.status = 200
    /\ Len(resp.body.value) = 2
    /\ resp.body.value[1].name # resp.body.value[2].name
    /\ resp.body.value[1].id > resp.body.value[2].id

\* C9: a request whose :id, :listId or :categoryId is not an integer is
\* answered 400 and no table is written.
C9_NonIntegerIdRejected ==
    (\/ (req.id # NoText /\ ~IsIntegerText(req.id))
     \/ (req.id2 # NoText /\ ~IsIntegerText(req.id2))) =>
        resp.status = 400 /\ TablesUnchanged

\* C10: every 400, 404 or 500 response has the body { error: message }.
C10_ErrorBodiesUniform ==
    resp.status \in {400, 404, 500} => resp.body.kind = "error"

\* the last request named, by a well-formed integer id, a row its table did
\* not hold, with a body its route accepts
MissingRowRequested ==
    /\ IsIntegerText(req.id)
    /\ \/ /\ req.op = "updateListName"
          /\ validateListUpdate(req.body) = {}
          /\ DigitsValue(req.id) \notin OldListIds
       \/ /\ req.op = "deleteList"
          /\ DigitsValue(req.id) \notin OldListIds
       \/ /\ req.op = "updateItem"
          /\ validateItemUpdate(req.body) = {}
          /\ DigitsValue(req.id) \notin OldItemIds
       \/ /\ req.op = "updateBoughtStatus"
          /\ req.body.bought.t = "boolean"
          /\ DigitsValue(req.id) \notin OldItemIds
       \/ /\ req.op = "deleteItem"
          /\ DigitsValue(req.id) \notin OldItemIds
       \/ /\ req.op = "deleteCategory"
          /\ DigitsValue(req.id) \notin OldCategoryIds

\* C11: PUT or DELETE /api/lists/:id, PUT, PATCH or DELETE /api/items/:id and
\* DELETE /api/categories/:id with an integer id that names no stored row are
\* answered 404 and leave the tables unchanged.
C11_MissingRowIsNotFound ==
    MissingRowRequested => resp.status = 404 /\ TablesUnchanged

\* the proleptic Gregorian date of a day counted from 1970-01-01
CivilFromDays(z) ==
    LET shifted == z + 719468
        era == shifted \div 146097
        doe == shifted - era * 146097
        yoe == (doe - (doe \div 1460) + (doe \div 36524) - (doe \div 146096)) \div 365
        doy == doe - (365 * yoe + (yoe \div 4) - (yoe \div 100))
        mp == (5 * doy + 2) \div 153
        d == doy - ((153 * mp + 2) \div 5) + 1
        m == IF mp < 10 THEN mp + 3 ELSE mp - 9
        y == yoe + era * 400 + (IF m <= 2 THEN 1 ELSE 0)
    IN  [year |-> y, month |-> m, day |-> d]

\* the year and month a text of the form YYYY-MM names
YearOf(s) == DigitsValue(SubSeq(s, 1, 4))
MonthOf(s) == DigitsValue(SubSeq(s, 6, 7))
\* the last request carried a YYYY-MM text naming one of the twelve months
ValidMonthRequested ==
    /\ req.month.t = "string"
    /\ MatchesMonthPattern(req.month.v)
    /\ MonthOf(req.month.v) \in 1..12

\* parseMonth returned the interval from the first day of year y, month m to
\* the first day of the month after it
IsMonthInterval(y, m) ==
    /\ resp.status = 200
    /\ CivilFromDays(resp.body.value.start) = [year |-> y, month |-> m, day |-> 1]
    /\ CivilFromDays(resp.body.value.end) =
          [year |-> IF m = 12 THEN y + 1 ELSE y,
           month |-> IF m = 12 THEN 1 ELSE m + 1,
           day |-> 1]

\* C12: for a valid YYYY-MM text parseMonth returns the interval that starts
\* at the first instant of that month and ends at the first instant of the
\* next month, the year rolling over after month 12.
C12_ParseMonthIsThatMonth ==
    (req.op = "parseMonth" /\ ValidMonthRequested) =>
        IsMonthInterval(YearOf(req.month.v), MonthOf(req.month.v))

\* the same for years from 0100 on
ParseMonthIsThatMonthFromYear100 ==
    (req.op = "parseMonth" /\ ValidMonthRequested /\ YearOf(req.month.v) >= 100) =>
        IsMonthInterval(YearOf(req.month.v), MonthOf(req.month.v))

\* for every text of the pattern the end is one calendar month after the start
ParseMonthSpansOneMonth ==
    (req.op = "parseMonth" /\ req.month.t = "string"
     /\ MatchesMonthPattern(req.month.v)) =>
        /\ resp.status = 200
        /\ LET from == CivilFromDays(resp.body.value.start)
               to == CivilFromDays(resp.body.value.end)
           IN  /\ from.day = 1 /\ to.day = 1
               /\ to.year * 12 + to.month = from.year * 12 + from.month + 1

\* four digits, a hyphen, two digits, and nothing else
IsYearMonthText(s) ==
    /\ Len(s) = 7
    /\ s[5] = "-"
    /\ \A k \in {1, 2, 3, 4, 6, 7} :
          s[k] \in {"0", "1", "2", "3", "4", "5", "6", "7", "8", "9"}

\* C13: GET /api/statistics/monthly with a month that is absent, empty or not
\* exactly four digits, a hyphen and two digits is answered 400 with the
\* error of parseMonth, and no table changes.
C13_MalformedMonthRejected ==
    (/\ req.op = "getMonthlyStats"
     /\ ~(req.month.t = "string" /\ IsYearMonthText(req.month.v))) =>
        /\ resp.status = 400
        /\ resp.body.kind = "error"
        /\ TablesUnchanged

\* a month with a third month digit was asked for while a list is stored
C13_Witness ==
    /\ req.op = "getMonthlyStats"
    /\ req.month = Str(Feb2024 \o <<"1">>)
    /\ resp.status = 400
    /\ lists # {}

\* the stored lists created in the month the last request asked for
ListsOfRequestedMonth ==
    {l \in lists :
        /\ CivilFromDays(l.createdAt).year = YearOf(req.month.v)
        /\ CivilFromDays(l.createdAt).month = MonthOf(req.month.v)}

\* C14: the monthly statistics of a valid month list exactly the lists created
\* from the first instant of that month up to, not including, the first
\* instant of the next, each once, in ascending createdAt order; a list
\* without items is listed with no categories and totalQuantity 0.
C14_MonthlyListsAreThoseOfTheMonth ==
    (/\ req.op = "getMonthlyStats"
     /\ ValidMonthRequested
     /\ YearOf(req.month.v) >= 100) =>
        /\ resp.status = 200
        /\ LET out == resp.body.value.lists IN
           /\ {[id |-> out[k].id, name |-> out[k].name, createdAt |-> out[k].createdAt]
                 : k \in DOMAIN out} = ListsOfRequestedMonth
           /\ \A i, j \in DOMAIN out : i # j => out[i].id # out[j].id
           /\ \A i, j \in DOMAIN out : i < j => out[i].createdAt <= out[j].createdAt
           /\ \A k \in DOMAIN out :
                 (\A i \in items : i.listId # out[k].id) =>
                     out[k].categories = <<>> /\ out[k].totalQuantity = 0

\* February 2024 was asked for while one list, without items, was created in
\* February and another on the first day of March
C14_Witness ==
    /\ req.op = "getMonthlyStats"
    /\ req.month = Str(Feb2024)
    /\ resp.status = 200
    /\ Len(resp.body.value.lists) = 1
    /\ resp.body.value.lists[1].totalQuantity = 0
    /\ \E l \in lists : l.createdAt = MakeDay(2024, 2, 1)

\* the list rows of the last response, when it is a statistics response
StatisticsRows ==
    IF resp.status = 200 /\ req.op = "getMonthlyStats"
    THEN {resp.body.value.lists[k] : k \in DOMAIN resp.body.value.lists}
    ELSE IF resp.status = 200 /\ req.op = "getStatsByList"
    THEN {resp.body.value}
    ELSE {}

\* C15: for every list of a statistics response totalQuantity is the number
\* of the list's item rows; categories has one row per categoryId of those
\* items, its quantity the number of items of that category; the quantities
\* sum to totalQuantity; the rows are ordered by quantity descending; a percent
\* that needs no rounding is quantity * 100 / totalQuantity.
C15_TotalsCountItemRows ==
    \A o \in StatisticsRows :
        LET rows == {i \in items : i.listId = o.id}
            cats == o.categories
        IN  /\ o.totalQuantity = Cardinality(rows)
            /\ Len(cats) = Cardinality({i.categoryId : i \in rows})
            /\ {cats[n].categoryId : n \in DOMAIN cats} = {i.categoryId : i \in rows}
            /\ \A n \in DOMAIN cats :
                  /\ cats[n].quantity
                       = Cardinality({i \in rows : i.categoryId = cats[n].categoryId})
                  /\ (cats[n].quantity * 10000) % o.totalQuantity = 0 =>
                        cats[n].percent * o.totalQuantity = cats[n].quantity * 10000
            /\ SumQuantity(cats) = o.totalQuantity
            /\ \A m, n \in DOMAIN cats : m < n => cats[m].quantity >= cats[n].quantity

\* a list with three items in category 2 and one in category 1 was reported as
\* totalQuantity 4 with [category 2: 3, 75%; category 1: 1, 25%], the items'
\* quantity fields being 2 each
C15_Witness ==
    /\ req.op = "getMonthlyStats"
    /\ resp.status = 200
    /\ Len(resp.body.value.lists) = 2
    /\ \E k \in DOMAIN resp.body.value.lists :
          LET o == resp.body.value.lists[k] IN
          /\ o.totalQuantity = 4
          /\ Len(o.categories) = 2
          /\ o.categories[1].categoryId = 2
          /\ o.categories[1].quantity = 3
          /\ o.categories[1].percent = 7500
          /\ o.categories[2].categoryId = 1
          /\ o.categories[2].quantity = 1
          /\ o.categories[2].percent = 2500
          /\ \A i \in items : i.listId = o.id => i.quantity = 2

RECURSIVE SumPercent(_)
SumPercent(cs) == IF cs = <<>> THEN 0 ELSE Head(cs).percent + SumPercent(Tail(cs))

\* C16: for a non-empty item array the percents of the breakdown, each rounded
\* to two decimals, sum to 100 within 0.02 times the number of categories
\* (percents are in hundredths: 10000 within 2 per category).
C16_PercentsSumToHundred ==
    (req.op = "computeCategoriesBreakdown" /\ items # {}) =>
        LET cats == resp.body.value
            off == SumPercent(cats) - 10000
        IN  /\ Len(cats) >= 1
            /\ off <= 2 * Len(cats)
            /\ 0 - off <= 2 * Len(cats)

\* three categories of one item each: 33.33 three times, 99.99 in all
C16_Witness ==
    /\ req.op = "computeCategoriesBreakdown"
    /\ Cardinality(items) = 3
    /\ Len(resp.body.value) = 3
    /\ SumPercent(resp.body.value) = 9999

\* C17: a list without items is answered by the server with no breakdown rows
\* and totalQuantity 0, and a local list data without categories has
\* totalQuantity 0; no percent is a division by zero.
C17_EmptySetGivesEmptyBreakdown ==
    /\ \A l \in lists :
          (\A i \in items : i.listId # l.id) =>
              /\ StatsOfList(l, {}).categories = <<>>
              /\ StatsOfList(l, {}).totalQuantity = 0
              /\ recalcList(StatsOfList(l, {})).categories = <<>>
              /\ recalcList(StatsOfList(l, {})).totalQuantity = 0
    /\ \A id \in DOMAIN hook.dataByList :
          LET d == hook.dataByList[id] IN
          /\ d.categories = <<>> => d.totalQuantity = 0
          /\ \A k \in DOMAIN d.categories : d.categories[k].percent.d # 0

\* a delete event took the last item out of the local breakdown of a list
C17_Witness ==
    /\ hook.event.type = "delete"
    /\ hook.event.listId \in DOMAIN hook.before
    /\ hook.before[hook.event.listId].categories # <<>>
    /\ hook.dataByList[hook.event.listId].categories = <<>>
    /\ hook.dataByList[hook.event.listId].totalQuantity = 0

\* POST /api/lists came without a name: absent, or the empty text
NamelessListRequested ==
    /\ req.op = "createList"
    /\ \/ req.body.name.t = "undefined"
       \/ req.body.name.t = "string" /\ req.body.name.v = <<>>

\* C18: creating a list without a name is answered 400 and stores no list,
\* although validateListCreation has no error for such a body.
C18_NamelessListRejected ==
    NamelessListRequested =>
        /\ validateListCreation(req.body) = {}
        /\ ~ListValidatorThrows(req.body)
        /\ resp.status = 400
        /\ TablesUnchanged

\* a list is stored and a list without a name was asked for and refused
C18_Witness ==
    /\ NamelessListRequested
    /\ req.body.name.t = "string"
    /\ resp.status = 400
    /\ lists # {}

\* PATCH /api/items/:id came for an item that was stored
BoughtRequested ==
    /\ req.op = "updateBoughtStatus"
    /\ \E i \in old.items : ToStr(i.id) = req.id

\* the stored item the last request names, as it was before the request
RequestedItem == CHOOSE i \in old.items : ToStr(i.id) = req.id

\* C19: PATCH /api/items/:id on a stored item with a `bought` that is not a
\* boolean is answered 400 and changes no row; with a boolean `bought` it is
\* answered 200, the item has that bought value and its other fields as
\* before, and every other item, list and category is as it was.
C19_BoughtToggleIsNarrow ==
    BoughtRequested =>
        IF req.body.bought.t = "boolean"
        THEN /\ resp.status = 200
             /\ lists = old.lists /\ categories = old.categories
             /\ items = (old.items \ {RequestedItem})
                          \cup {[RequestedItem EXCEPT
                                    !.bought = (req.body.bought.v = 1)]}
             /\ \A i \in items :
                    i.id # RequestedItem.id => i \in old.items
        ELSE resp.status = 400 /\ TablesUnchanged

\* a stored item's bought value was switched while another item is stored
C19_Witness ==
    /\ BoughtRequested
    /\ req.body.bought.t = "boolean"
    /\ (req.body.bought.v = 1) # RequestedItem.bought
    /\ Cardinality(items) = 2
    /\ resp.status = 200

\* the last thing the hook did was to handle an item event of a list it holds
\* data of
ItemEventHandled ==
    /\ hook.event.type \in {"insert", "update", "delete"}
    /\ hook.event.listId \in DOMAIN hook.before

\* the categories the hook tracked for the event's list when the event came
TrackedBefore ==
    {hook.before[hook.event.listId].categories[k].categoryId :
        k \in DOMAIN hook.before[hook.event.listId].categories}

\* C20: an item event naming a category the local breakdown of its list does
\* not track calls reloadList for that list and leaves the local data as it
\* was; an event naming a tracked category calls no reloadList.
C20_UntrackedCategoryReloads ==
    ItemEventHandled =>
        IF hook.event.categoryId \in TrackedBefore
        THEN ~hook.reloadCalled
        ELSE /\ hook.reloadCalled
             /\ hook.event.listId \in hook.fetching
             /\ hook.dataByList = hook.before

\* what does hold: insert and update events on an untracked category reload,
\* no event on an untracked category changes the local data, and events on
\* tracked categories do not reload
UntrackedInsertOrUpdateReloads ==
    ItemEventHandled =>
        /\ hook.event.categoryId \notin TrackedBefore =>
              /\ hook.dataByList = hook.before
              /\ hook.event.type \in {"insert", "update"} =>
                    hook.reloadCalled /\ hook.event.listId \in hook.fetching
        /\ hook.event.categoryId \in TrackedBefore => ~hook.reloadCalled

\* a delete event on an untracked category calls no reloadList
UntrackedDeleteDoesNotReload ==
    (/\ ItemEventHandled
     /\ hook.event.type = "delete"
     /\ hook.event.categoryId \notin TrackedBefore) => ~hook.reloadCalled

\* the last text given to parseMonth has the YYYY-MM shape but its two-digit
\* number is none of 01 to 12
MonthNumberOutOfRange ==
    /\ req.op = "parseMonth"
    /\ req.month.t = "string"
    /\ IsYearMonthText(req.month.v)
    /\ MonthOf(req.month.v) \notin 1..12

\* C30: parseMonth rejects a YYYY-MM text whose month number is not between 01
\* and 12 with the 400 error, and returns no interval for it.
C30_MonthNumberOutOfRangeRejected ==
    MonthNumberOutOfRange => resp.status = 400

\* what the code does instead: month 00 is December of the year before and
\* month 13 January of the year after
MonthNumberOutOfRangeRollsOver ==
    MonthNumberOutOfRange =>
        /\ resp.status = 200
        /\ LET from == CivilFromDays(resp.body.value.start)
               y == YearOf(req.month.v)
               year == IF y < 100 THEN 1900 + y ELSE y
           IN  IF MonthOf(req.month.v) = 0
               THEN from = [year |-> year - 1, month |-> 12, day |-> 1]
               ELSE from = [year |-> year + 1,
                            month |-> MonthOf(req.month.v) - 12, day |-> 1]

\* the last request went through the middleware chain of a route
RouteRequested ==
    req.op \notin {"none", "parseMonth", "computeCategoriesBreakdown"}

ValidationRefused ==
    /\ req.op = "updateListName"
    /\ resp.status = 400
    /\ resp.body.kind = "errors"
    /\ sends = 1

ListDeleteAnswered ==
    /\ req.op = "deleteList"
    /\ \E l \in old.lists : ToStr(l.id) = req.id

\* the list the last request names, and the items it had when the request
\* arrived
DeletedList == CHOOSE l \in old.lists : ToStr(l.id) = req.id
ItemsOfDeletedList == {i \in old.items : i.listId = DeletedList.id}

\* C23: deleteList beside a concurrent addItemToCategory on the same list is
\* all-or-nothing: answered 204 with the list and every item of it gone, or
\* answered with an error with the list and all items it had still stored.
C23_DeleteListAllOrNothing ==
    ListDeleteAnswered =>
        IF resp.status = 204
        THEN /\ DeletedList \notin lists
             /\ \A i \in items : i.listId # DeletedList.id
        ELSE /\ DeletedList \in lists
             /\ ItemsOfDeletedList \subseteq items

\* what does hold: a 204 leaves neither the list nor an item of it
DeleteListSuccessIsComplete ==
    (ListDeleteAnswered /\ resp.status = 204) =>
        /\ DeletedList \notin lists
        /\ \A i \in items : i.listId # DeletedList.id

\* the sum of the numerators of the percents of a category array
RECURSIVE SumPercentNumerators(_)
SumPercentNumerators(cs) ==
    IF cs = <<>> THEN 0 ELSE Head(cs).percent.n + SumPercentNumerators(Tail(cs))

\* the sum of the quantities of categories 1..k of a category array
RECURSIVE QuantityUpTo(_, _)
QuantityUpTo(cs, k) ==
    IF k = 0 THEN 0 ELSE cs[k].quantity + QuantityUpTo(cs, k - 1)

CreatedInSelectedMonth(id) ==
    \E l \in lists :
        /\ l.id = id
        /\ CivilFromDays(l.createdAt).year = YearOf(hook.month.v)
        /\ CivilFromDays(l.createdAt).month = MonthOf(hook.month.v)

\* C25: once no monthly load is in flight, the hook shows what was returned
\* for the selected month: the load that settled last is that of hook.month,
\* and the lists shown that are still stored are lists of that month.
C25_ShownMonthIsSelectedMonth ==
    (hook.loading = {} /\ hook.shown.t # "undefined" /\ hook.event.type = "none") =>
        hook.shown = hook.month

\* whatever its order, a load that settles shows the lists of its own month
SettledLoadShowsItsMonth ==
    (hook.shown.t # "undefined" /\ hook.lists # {}) =>
        \A id \in hook.lists \cap ListIds :
            \/ /\ CivilFromDays(ListById(id).createdAt).year = YearOf(hook.shown.v)
               /\ CivilFromDays(ListById(id).createdAt).month = MonthOf(hook.shown.v)
            \/ id \in DOMAIN hook.dataByList
                 /\ hook.dataByList[id].totalQuantity = 0

\* C29: every list in the hook's `lists` and every key of dataByList that is
\* stored was created within the selected month.
C29_HookListsAreOfSelectedMonth ==
    (hook.loading = {} /\ hook.shown = hook.month) =>
        \A id \in (hook.lists \cup DOMAIN hook.dataByList) \cap ListIds :
            CreatedInSelectedMonth(id)

\* an event of the given type on the given table was the last thing the page
\* handled
PageHandled(type, table) == page.event.type = type /\ page.event.table = table

\* the grouping the last item event went to, before and after it
GroupingBefore == Grouping(page.before, page.event.categoryId)
GroupingAfter == Grouping(page, page.event.categoryId)

\* rows, position by position, are what they were, but for the content of
\* the row with the given id
SameButRow(was, is, id) ==
    /\ Len(is) = Len(was)
    /\ \A k \in 1..Len(was) :
          IF was[k].id = id THEN is[k].id = id ELSE is[k] = was[k]

\* rows follow each other by name in the given direction
InNameOrder(rows, asc) ==
    \A k \in 1..(Len(rows) - 1) :
        IF asc THEN TextLeq(rows[k].name, rows[k + 1].name)
        ELSE TextLeq(rows[k + 1].name, rows[k].name)

\* the bought / not-bought filter of the page lets a row through
FilterAllows(row) ==
    (row.bought /\ page.showBought) \/ (~row.bought /\ page.showNotBought)

\* the local list collection does follow the pattern: an UPDATE event of a
\* list changes the row of its id and nothing else
ListUpdateReplacesInPlace ==
    PageHandled("update", "List") =>
        SameButRow(page.before.lists, page.lists, page.event.id)

\* so does a grouping that shows everything in the current direction
ItemUpdateOfUnfilteredGroupingReplacesInPlace ==
    (PageHandled("update", "Item") /\ page.showBought /\ page.showNotBought
        /\ InNameOrder(GroupingBefore, page.nameOrderAsc)) =>
        SameButRow(GroupingBefore, GroupingAfter, page.event.id)

\* C21: a real-time UPDATE event replaces the matching row in place by id,
\* in the list collection and in the item groupings: the row of the event's id
\* is the pushed one and no other row is added, removed or changed.
C21_UpdateReplacesInPlace ==
    /\ PageHandled("update", "List") =>
          SameButRow(page.before.lists, page.lists, page.event.id)
    /\ PageHandled("update", "Item") =>
          /\ \A c \in DOMAIN page.byCategory \ {page.event.categoryId} :
                Grouping(page, c) = Grouping(page.before, c)
          /\ SameButRow(GroupingBefore, GroupingAfter, page.event.id)

\* C22: after a real-time item INSERT event the grouping of the new row's
\* category is ordered by name in the selected direction, holds only rows the
\* bought / not-bought filter allows, and holds the new row when the filter
\* allows it.
C22_InsertKeepsSortAndFilter ==
    PageHandled("insert", "Item") =>
        /\ InNameOrder(GroupingAfter, page.nameOrderAsc)
        /\ \A k \in DOMAIN GroupingAfter : FilterAllows(GroupingAfter[k])
        /\ FilterAllows(AsInserted(ItemById(page.event.id))) =>
              \E k \in DOMAIN GroupingAfter :
                  GroupingAfter[k] = AsInserted(ItemById(page.event.id))

\* an INSERT event put a row in front of a row of another name in a grouping
\* shown in descending order
C22_Witness ==
    /\ PageHandled("insert", "Item")
    /\ ~page.nameOrderAsc
    /\ Len(GroupingAfter) = 2
    /\ GroupingAfter[1].id = page.event.id
    /\ GroupingAfter[1].name # GroupingAfter[2].name
    /\ Len(GroupingBefore) = 1

\* no two positions of a local collection hold rows of the same id
EachIdOnce(rows) ==
    \A j, k \in DOMAIN rows : rows[j].id = rows[k].id => j = k

\* C24: however fetches (loadLists, loadItems) and real-time INSERT events of
\* the same rows interleave, the lists array of useLists and every
\* itemsByCategory grouping of useItems hold each id at most once.
C24_NoDuplicateIds ==
    /\ EachIdOnce(page.lists)
    /\ \A c \in DOMAIN page.byCategory : EachIdOnce(page.byCategory[c])

\* the same, for the item groupings alone
GroupingsHoldEachIdOnce ==
    \A c \in DOMAIN page.byCategory : EachIdOnce(page.byCategory[c])

\* the rows shown for the item handleBought was last called for, and the
\* stored rows of its id
LocalRowsOfBought ==
    {r \in {GroupingAfter[k] : k \in DOMAIN GroupingAfter} : r.id = page.event.id}
StoredRowsOfBought == {i \in items : i.id = page.event.id}

\* handleBought leaves the local flag equal to the stored one
LocalBoughtIsStoredBought ==
    \A r \in LocalRowsOfBought, i \in StoredRowsOfBought : r.bought = i.bought

\* when the save succeeds, it does
SavedBoughtIsStoredBought ==
    (PageHandled("bought", "Item") /\ page.saved) => LocalBoughtIsStoredBought

\* C28: after handleBought completes for an item, the bought flag held
\* locally for it equals the bought flag stored on the server, when the save
\* succeeds and when it fails.
C28_LocalBoughtEqualsStoredBought ==
    PageHandled("bought", "Item") => LocalBoughtIsStoredBought
====
